---------------------------- MODULE Spec2Model ----------------------------
(***************************************************************************)
(* fox-bytecode: the single-pass compiler (frontend/assembler.rs,          *)
(* frontend/compiler.rs) and the stack virtual machine                     *)
(* (backend/machine.rs), modelled as a state machine.                      *)
(*                                                                         *)
(* Init compiles one program of a small catalogue of token streams with    *)
(* the compiler operators below and constructs the VM (Machine::with).     *)
(* Every later step executes one instruction of the dispatch loop          *)
(* (Machine::perform), including the error handling of Machine::run.       *)
(*                                                                         *)
(* Offsets (ip, chunk positions, stack indices, slots) are 0-based as in   *)
(* the source; TLA+ sequences are 1-based, so element k of a vector v is   *)
(* v[k + 1].  Option<T> is a sequence of length 0 (None) or 1 (Some).      *)
(* Numbers are integers (the source's f32 restricted to the integers).     *)
(***************************************************************************)
EXTENDS Integers, Sequences, FiniteSets, TLC

(***************************************************************************)
(* Bounds of the model                                                     *)
(***************************************************************************)
\* the programs read one number literal "K"; it ranges over 0..MaxInput
MaxInput == 3

(***************************************************************************)
(* Generic helpers                                                         *)
(***************************************************************************)
None == <<>>
Some(x) == <<x>>
IsSome(o) == Len(o) = 1
Unwrap(o) == o[1]

Last(s) == s[Len(s)]
Front(s) == SubSeq(s, 1, Len(s) - 1)
Truncate(s, n) == IF n >= Len(s) THEN s ELSE SubSeq(s, 1, n)

\* evaluate e to a value v, then continue with v
Then(e, F(_)) == CHOOSE r \in { F(v) : v \in {e} } : TRUE

RECURSIVE Flatten(_)
Flatten(ss) == IF ss = <<>> THEN <<>> ELSE Head(ss) \o Flatten(Tail(ss))

(***************************************************************************)
(* Program constants                                                       *)
(***************************************************************************)
UINT8_COUNT == 256
MAX_FUNCTION_ARGUMENTS == 255
FRAMES_MAX == 64
STACK_MAX_SIZE == FRAMES_MAX * UINT8_COUNT
MAX_SCOPE_SIZE == UINT8_COUNT
U16_MAX == 65535
INITIALIZER_METHOD_NAME == "init"

(***************************************************************************)
(* Values (data/value.rs, data/class.rs)                                   *)
(***************************************************************************)
Nil == [t |-> "Nil"]
Bool(b) == [t |-> "Bool", b |-> b]
Number(n) == [t |-> "Number", n |-> n]
Text(s) == [t |-> "Text", s |-> s]
Fun(f) == [t |-> "Fun", func |-> f]
NativeFun(name) == [t |-> "NativeFun", id |-> name]
ClosureVal(id) == [t |-> "Closure", id |-> id]
ClassVal(id) == [t |-> "Class", id |-> id]
InstanceVal(id) == [t |-> "Instance", id |-> id]
BoundVal(id) == [t |-> "BoundMethod", id |-> id]

\* Value::as_bool
as_bool(v) == CASE v.t = "Nil" -> FALSE
                [] v.t = "Bool" -> v.b
                [] OTHER -> TRUE

\* Value::Number holds a Double (f32): the numbers the programs of the
\* catalogue compute are integers, and NaN is the one Double (an overflowed
\* product minus itself, for instance) that `==` does not find equal to itself
NaN == [t |-> "Number", n |-> 0, nan |-> TRUE]
IsNaN(v) == "nan" \in DOMAIN v

\* PartialEq for Value that compares the objects by their variant alone
value_eq_by_variant(l, r) ==
    IF l.t # r.t THEN FALSE
    ELSE CASE l.t = "Nil" -> TRUE
           [] l.t = "Number" -> ~IsNaN(l) /\ ~IsNaN(r) /\ l.n = r.n
           [] l.t = "Bool" -> l.b = r.b
           [] l.t = "Text" -> l.s = r.s
           [] OTHER -> TRUE

\* PartialEq for Value: by value on Nil/Number/Bool/Text, by identity on objects
value_eq(l, r) ==
    IF l.t # r.t THEN FALSE
    ELSE CASE l.t = "Nil" -> TRUE
           [] l.t = "Number" -> ~IsNaN(l) /\ ~IsNaN(r) /\ l.n = r.n
           [] l.t = "Bool" -> l.b = r.b
           [] l.t = "Text" -> l.s = r.s
           [] l.t = "Fun" -> l.func = r.func
           [] OTHER -> l.id = r.id

(***************************************************************************)
(* Instruction codec (data/instruction.rs)                                 *)
(***************************************************************************)
Instr(op, a, b) == [op |-> op, a |-> a, b |-> b]
I0(op) == Instr(op, 0, 0)
I1(op, a) == Instr(op, a, 0)

\* the opcodes data/instruction.rs defines
OpcodeTable ==
    << "Constant", "Nil", "True", "False", "Negate", "Add", "Subtract",
       "Multiply", "Divide", "Return", "Not", "Less", "Greater", "Equal",
       "Print", "Pop", "DefineGlobal", "GetGlobal", "SetGlobal", "GetLocal",
       "SetLocal", "JumpIfFalse", "Jump", "Loop", "Duplicate", "Call",
       "Closure" >>

\* the opcodes of the instructions the machine dispatches on and the
\* assembler emits, whose constants are not in data/instruction.rs
ExtOpcodeTable ==
    << "GetUpvalue", "SetUpvalue", "CloseUpvalue", "Class", "GetProperty",
       "SetProperty", "Method" >>

AllOpcodes == OpcodeTable \o ExtOpcodeTable

OpcodeOf(op) == (CHOOSE k \in 1..Len(AllOpcodes) : AllOpcodes[k] = op) - 1

\* operand bytes after the opcode
OperandCount(op) ==
    CASE op \in {"Constant", "DefineGlobal", "GetGlobal", "SetGlobal",
                 "GetLocal", "SetLocal", "Call", "Closure", "GetUpvalue",
                 "SetUpvalue", "Class", "GetProperty", "SetProperty",
                 "Method"} -> 1
      [] op \in {"JumpIfFalse", "Jump", "Loop"} -> 2
      [] OTHER -> 0

\* as_vec that writes the two operand bytes of a jump in the other order
as_vec_swapped(i) ==
    CASE OperandCount(i.op) = 0 -> << OpcodeOf(i.op) >>
      [] OperandCount(i.op) = 1 -> << OpcodeOf(i.op), i.a >>
      [] OTHER -> << OpcodeOf(i.op), i.b, i.a >>

\* Instruction::as_vec
as_vec(i) ==
    CASE OperandCount(i.op) = 0 -> << OpcodeOf(i.op) >>
      [] OperandCount(i.op) = 1 -> << OpcodeOf(i.op), i.a >>
      [] OTHER -> << OpcodeOf(i.op), i.a, i.b >>

\* Instruction::size
size(i) == Len(as_vec(i))

stub_jump_if_false == Instr("JumpIfFalse", 255, 255)
stub_jump == Instr("Jump", 255, 255)

\* Instruction::fetch: the instruction at `offset` and the offset after it
fetch(buffer, offset) ==
    IF offset >= Len(buffer)
    THEN [ok |-> FALSE, err |-> "End of program", offset |-> offset]
    ELSE LET byte == buffer[offset + 1] IN
         IF byte >= Len(AllOpcodes)
         THEN [ok |-> FALSE, err |-> "Unknown instruction " \o ToString(byte),
               offset |-> offset + 1]
         ELSE LET op == AllOpcodes[byte + 1]
                  n == OperandCount(op)
              IN  IF offset + n >= Len(buffer)
                  THEN [ok |-> FALSE, err |-> "Broken instruction",
                        offset |-> Len(buffer)]
                  ELSE [ok |-> TRUE,
                        instr |-> Instr(op,
                                        IF n >= 1 THEN buffer[offset + 2] ELSE 0,
                                        IF n = 2 THEN buffer[offset + 3] ELSE 0),
                        offset |-> offset + 1 + n]

\* the 16-bit big-endian operand of the jump instructions
word_to_bytes(w) == << (w \div 256) % 256, w % 256 >>
bytes_to_word(first, second) == first * 256 + second

\* UpvalueData::as_vec / UpvalueData::fetch
upvalue_as_vec(data) == << IF data.is_local THEN 1 ELSE 0, data.index >>
upvalue_fetch(buffer, offset) ==
    IF offset + 1 >= Len(buffer) THEN None
    ELSE Some([is_local |-> buffer[offset + 1] # 0, index |-> buffer[offset + 2]])


(***************************************************************************)
(* Tokens (the token source of frontend/assembler.rs)                      *)
(***************************************************************************)
Token(t_type, text, line) == [t_type |-> t_type, text |-> text, line |-> line]

\* Token::undefined
undefined_token == Token("Undefined", "", 0)

NumberLexemes == { ToString(n) : n \in 0..20 }
StringContents == { "a", "b", "init", "updated", "outside", "x", "y" }
Quote(c) == "\"" \o c \o "\""
ErrorLexemes == { "@" }

\* the scanner's classification of a lexeme
TokenTypeOf(lexeme) ==
    CASE lexeme = "(" -> "LeftParenthesis"
      [] lexeme = ")" -> "RightParenthesis"
      [] lexeme = "{" -> "LeftBrace"
      [] lexeme = "}" -> "RightBrace"
      [] lexeme = "case" -> "Case"
      [] lexeme = ":" -> "Colon"
      [] lexeme = "," -> "Comma"
      [] lexeme = "default" -> "DefaultCase"
      [] lexeme = "." -> "Dot"
      [] lexeme = "-" -> "Minus"
      [] lexeme = "+" -> "Plus"
      [] lexeme = ";" -> "Semicolon"
      [] lexeme = "/" -> "Slash"
      [] lexeme = "*" -> "Star"
      [] lexeme = "!" -> "Bang"
      [] lexeme = "!=" -> "BangEqual"
      [] lexeme = "=" -> "Equal"
      [] lexeme = "==" -> "EqualEqual"
      [] lexeme = ">" -> "Greater"
      [] lexeme = ">=" -> "GreaterEqual"
      [] lexeme = "<" -> "Less"
      [] lexeme = "<=" -> "LessEqual"
      [] lexeme = "and" -> "And"
      [] lexeme = "break" -> "Break"
      [] lexeme = "class" -> "Class"
      [] lexeme = "continue" -> "Continue"
      [] lexeme = "else" -> "Else"
      [] lexeme = "false" -> "False"
      [] lexeme = "fun" -> "Fun"
      [] lexeme = "for" -> "For"
      [] lexeme = "if" -> "If"
      [] lexeme = "nil" -> "Nil"
      [] lexeme = "or" -> "Or"
      [] lexeme = "print" -> "Print"
      [] lexeme = "return" -> "Return"
      [] lexeme = "super" -> "Super"
      [] lexeme = "switch" -> "Switch"
      [] lexeme = "this" -> "This"
      [] lexeme = "true" -> "True"
      [] lexeme = "var" -> "Var"
      [] lexeme = "while" -> "While"
      [] lexeme \in NumberLexemes -> "Number"
      [] lexeme \in { Quote(c) : c \in StringContents } -> "String"
      [] lexeme \in ErrorLexemes -> "Error"
      [] OTHER -> "Identifier"

\* the token of a lexeme; an error token carries its diagnostic as text
make_token(lexeme, line) ==
    IF TokenTypeOf(lexeme) = "Error"
    THEN Token("Error", "Unexpected character '" \o lexeme \o "'", line)
    ELSE Token(TokenTypeOf(lexeme), lexeme, line)

\* the token stream of a source given as lines of lexemes (lines count from 1)
TokensOf(lines) ==
    Flatten([ l \in 1..Len(lines) |->
                [ k \in 1..Len(lines[l]) |-> make_token(lines[l][k], l) ] ])

\* Value::number_from: the number a number lexeme denotes
number_from(text) == CHOOSE n \in 0..20 : ToString(n) = text

\* the characters of a string lexeme between its quotes
string_content(text) == CHOOSE c \in StringContents : Quote(c) = text

(***************************************************************************)
(* Compiler state of one function (frontend/compiler.rs)                   *)
(***************************************************************************)
\* Func::default; `marks` is a ghost field: the chunk positions at which a
\* statement starts, each with the number of locals declared at that point
default_func ==
    [arity |-> 0, chunk |-> [code |-> <<>>, constants |-> <<>>, line |-> <<>>],
     name |-> None, upvalue_count |-> 0, marks |-> <<>>]

\* Local::reserved / Local::with_name
reserved_local == [name |-> "", depth |-> Some(0), is_captured |-> FALSE]
local_with_name(name) == [name |-> name, depth |-> None, is_captured |-> FALSE]

\* Compiler::with; the enclosing compiler is the one below it in the
\* assembler's sequence of compilers
compiler_with(func_type) ==
    [func |-> default_func, func_type |-> func_type,
     locals |-> << reserved_local >>, depth |-> 0, upvalues |-> <<>>]

chunk_position(c) == Len(c.func.chunk.code)

\* Compiler::emit_buffer (Chunk::write_u8 for every byte)
emit_buffer(c, buffer, line) ==
    [c EXCEPT !.func.chunk.code = @ \o buffer,
              !.func.chunk.line = @ \o [ k \in 1..Len(buffer) |-> line ]]

\* Compiler::emit_instruction_at_line
emit_instruction_at_line(c, instr, line) == emit_buffer(c, as_vec(instr), line)

\* Compiler::patch_instruction (Chunk::patch_u8 for every byte)
patch_instruction(c, instr, offset) ==
    LET bytes == as_vec(instr) IN
    [c EXCEPT !.func.chunk.code =
        [ k \in 1..Len(@) |->
            IF k - 1 >= offset /\ k - 1 < offset + Len(bytes)
            THEN bytes[k - offset] ELSE @[k] ]]

\* is_last_out_of_scope that also takes the locals of the scope returned to
is_last_out_of_scope_or_equal(c) ==
    /\ c.locals # <<>>
    /\ IsSome(Last(c.locals).depth)
    /\ Unwrap(Last(c.locals).depth) >= c.depth

\* Compiler::is_last_out_of_scope
is_last_out_of_scope(c) ==
    /\ c.locals # <<>>
    /\ IsSome(Last(c.locals).depth)
    /\ Unwrap(Last(c.locals).depth) > c.depth

\* the loop of Compiler::end_scope: one CloseUpvalue or Pop per local
RECURSIVE end_scope_locals(_, _)
end_scope_locals(c, line) ==
    IF ~is_last_out_of_scope(c) THEN c
    ELSE LET instr == IF Last(c.locals).is_captured
                      THEN I0("CloseUpvalue") ELSE I0("Pop")
             c1 == emit_instruction_at_line(c, instr, line)
         IN  end_scope_locals([c1 EXCEPT !.locals = Front(@)], line)

\* Compiler::end_scope
compiler_end_scope(c, line) ==
    end_scope_locals([c EXCEPT !.depth = @ - 1], line)

\* Compiler::has_declared_variable
has_declared_variable(c, name) ==
    \E i \in 1..Len(c.locals) :
        /\ c.locals[i].name = name
        /\ \A j \in i..Len(c.locals) :
              /\ IsSome(c.locals[j].depth)
              /\ Unwrap(c.locals[j].depth) >= c.depth

\* Compiler::resolve_local: the newest local of that name
resolve_local(c, name) ==
    LET hits == { i \in 1..Len(c.locals) : c.locals[i].name = name } IN
    IF hits = {} THEN None
    ELSE LET i == CHOOSE h \in hits : \A g \in hits : g <= h
         IN  Some([index |-> (i - 1) % 256, depth |-> c.locals[i].depth])

\* add_upvalue that never looks for the descriptor among those it has
add_upvalue_again(c, index, is_local) ==
    LET count == c.func.upvalue_count
        data == [index |-> index, is_local |-> is_local]
    IN  IF count = UINT8_COUNT
        THEN [c |-> c, ok |-> FALSE, index |-> 0]
        ELSE [c |-> [c EXCEPT !.upvalues = Append(@, data),
                               !.func.upvalue_count = count + 1],
              ok |-> TRUE, index |-> count]

\* Compiler::add_upvalue
add_upvalue(c, index, is_local) ==
    LET count == c.func.upvalue_count
        data == [index |-> index, is_local |-> is_local]
        found == { i \in 1..count : c.upvalues[i] = data }
    IN  IF found # {}
        THEN [c |-> c, ok |-> TRUE,
              index |-> (CHOOSE i \in found : \A j \in found : i <= j) - 1]
        ELSE IF count = UINT8_COUNT
        THEN [c |-> c, ok |-> FALSE, index |-> 0]
        ELSE [c |-> [c EXCEPT !.upvalues = Append(@, data),
                               !.func.upvalue_count = count + 1],
              ok |-> TRUE, index |-> count]

\* Compiler::resolve_upvalue for compiler k of the sequence cs; enclosing
\* compilers are updated (is_captured, their own upvalues) on the way.
\* res is "NotFound", "Index" (with index) or "Error"
RECURSIVE resolve_upvalue(_, _, _)
resolve_upvalue(cs, k, name) ==
    IF k = 1 THEN [cs |-> cs, res |-> "NotFound", index |-> 0]
    ELSE
      LET local == resolve_local(cs[k - 1], name) IN
      IF IsSome(local)
      THEN LET index == Unwrap(local).index
               cs1 == [cs EXCEPT ![k - 1].locals[index + 1].is_captured = TRUE]
               r == add_upvalue(cs1[k], index, TRUE)
           IN  [cs |-> [cs1 EXCEPT ![k] = r.c],
                res |-> IF r.ok THEN "Index" ELSE "Error",
                index |-> r.index % 256]
      ELSE LET up == resolve_upvalue(cs, k - 1, name) IN
           IF up.res = "Index"
           THEN LET r == add_upvalue(up.cs[k], up.index, FALSE)
                IN  [cs |-> [up.cs EXCEPT ![k] = r.c],
                     res |-> IF r.ok THEN "Index" ELSE "Error",
                     index |-> r.index % 256]
           ELSE up

\* Compiler::mark_initialized
mark_initialized(c) ==
    IF c.depth = 0 THEN c
    ELSE [c EXCEPT !.locals[Len(c.locals)].depth = Some(c.depth)]

(***************************************************************************)
(* The assembler (frontend/assembler.rs): a parser state p is threaded     *)
(* through the parse functions.  p.compilers is the chain of compilers,    *)
(* innermost last; p.aborted is set where the source would panic.          *)
(***************************************************************************)
\* Assembler::new over a token source
assembler_new(toks) ==
    [toks |-> toks, pos |-> 0, current |-> undefined_token,
     previous |-> undefined_token, compilers |-> <<>>, panic_mode |-> FALSE,
     errors |-> <<>>, loop_stack |-> <<>>, class_compilers |-> 0,
     aborted |-> FALSE]

\* Assembler::compiler / compiler_mut
cur(p) == Last(p.compilers)
with_cur(p, c) == [p EXCEPT !.compilers[Len(p.compilers)] = c]

\* TokenSource::scan_token: the next token, Eof once the source is used up
scan_token(p) ==
    IF p.pos < Len(p.toks) THEN p.toks[p.pos + 1]
    ELSE Token("Eof", "", IF p.toks = <<>> THEN 1 ELSE Last(p.toks).line)

\* ErrorInfo::with: an error token's own text comes first
error_info(elem, message) ==
    [line |-> elem.line,
     message |-> IF elem.t_type = "Error" /\ elem.text # ""
                 THEN IF message = "" \/ message = elem.text THEN elem.text
                      ELSE elem.text \o " : " \o message
                 ELSE message]

\* Assembler::push_error_info
push_error_info(p, elem, message) ==
    IF p.panic_mode THEN p
    ELSE [p EXCEPT !.panic_mode = TRUE,
                   !.errors = Append(@, error_info(elem, message))]

\* Assembler::error_at_current / Assembler::error
error_at_current(p, message) == push_error_info(p, p.current, message)
error(p, message) == push_error_info(p, p.previous, message)

\* the loop of Assembler::advance: error tokens are reported and skipped
RECURSIVE advance_loop(_)
advance_loop(p) ==
    LET token == scan_token(p)
        p1 == [p EXCEPT !.current = token, !.pos = @ + 1]
    IN  IF token.t_type = "Error" THEN advance_loop(error_at_current(p1, ""))
        ELSE p1

\* Assembler::advance
advance(p) == advance_loop([p EXCEPT !.previous = p.current])

\* Assembler::check
check(p, t_type) == p.current.t_type = t_type

\* Assembler::consume
consume(p, t_type, message) ==
    IF check(p, t_type) THEN advance(p) ELSE error_at_current(p, message)

\* Assembler::emit_instruction (the line is the previous token's)
emit_instruction(p, instr) ==
    with_cur(p, emit_instruction_at_line(cur(p), instr, p.previous.line))

\* Assembler::make_constant (Compiler::add_constant, Chunk::add_constant)
make_constant(p, value) ==
    LET idx == Len(cur(p).func.chunk.constants)
        p1 == with_cur(p, [cur(p) EXCEPT !.func.chunk.constants = Append(@, value)])
    IN  IF idx > 255
        THEN [p |-> error(p1, "Too many constants in one chunk"), idx |-> 0]
        ELSE [p |-> p1, idx |-> idx]

\* Assembler::emit_constant
emit_constant(p, value) ==
    LET mc == make_constant(p, value)
    IN  emit_instruction(mc.p, I1("Constant", mc.idx))

\* Assembler::identifier_constant
identifier_constant(p, token) == make_constant(p, Text(token.text))

\* Assembler::emit_return
emit_return(p) ==
    emit_instruction(
        emit_instruction(p, IF cur(p).func_type = "Initializer"
                            THEN I1("GetLocal", 0) ELSE I0("Nil")),
        I0("Return"))

\* Assembler::emit_loop
emit_loop(p, loop_start) ==
    IF chunk_position(cur(p)) < loop_start THEN [p EXCEPT !.aborted = TRUE]
    ELSE LET offset == chunk_position(cur(p)) - loop_start + size(Instr("Loop", 0, 0))
             p1 == IF offset > U16_MAX THEN error(p, "Jump size is too large") ELSE p
             w == word_to_bytes(offset)
         IN  emit_instruction(p1, Instr("Loop", w[1], w[2]))

\* patch_jump that stores the offset without looking at its size
patch_fetched_unchecked(p, offset, f) ==
    IF chunk_position(cur(p)) < f.offset THEN [p EXCEPT !.aborted = TRUE]
    ELSE Then(chunk_position(cur(p)) - f.offset, LAMBDA jump :
            IF ~f.ok THEN error(p, "Bug: " \o f.err)
            ELSE IF f.instr.op \notin {"JumpIfFalse", "Jump"}
            THEN error(p, "Bug: Attempt to patch non-jump instruction in 'path_jump' function")
            ELSE with_cur(p, patch_instruction(cur(p),
                    Instr(f.instr.op, word_to_bytes(jump)[1], word_to_bytes(jump)[2]),
                    offset)))

\* Assembler::patch_jump for the fetch result f of the instruction at offset
patch_fetched(p, offset, f) ==
    IF chunk_position(cur(p)) < f.offset THEN [p EXCEPT !.aborted = TRUE]
    ELSE Then(chunk_position(cur(p)) - f.offset, LAMBDA jump :
         Then(IF jump > U16_MAX THEN error(p, "Too much code to jump over") ELSE p,
              LAMBDA p1 :
            IF ~f.ok THEN error(p1, "Bug: " \o f.err)
            ELSE IF f.instr.op \notin {"JumpIfFalse", "Jump"}
            THEN error(p1, "Bug: Attempt to patch non-jump instruction in 'path_jump' function")
            ELSE with_cur(p1, patch_instruction(cur(p1),
                    Instr(f.instr.op, word_to_bytes(jump)[1], word_to_bytes(jump)[2]),
                    offset))))

\* Assembler::patch_jump
patch_jump(p, offset) == patch_fetched(p, offset, fetch(cur(p).func.chunk.code, offset))

\* Assembler::init_compiler
init_compiler(p, func_type) ==
    LET c == compiler_with(func_type)
    IN  [p EXCEPT !.compilers =
            Append(@, IF func_type = "Script" THEN c
                      ELSE [c EXCEPT !.func.name = Some(p.previous.text)])]

\* Assembler::end_compiler: the state after it and the compiler it returns
end_compiler(p) ==
    Then(emit_return(p), LAMBDA p1 :
        [p |-> [p1 EXCEPT !.compilers = Front(@)], c |-> cur(p1)])

\* Assembler::begin_scope / Assembler::end_scope
begin_scope(p) == with_cur(p, [cur(p) EXCEPT !.depth = @ + 1])
end_scope(p) == with_cur(p, compiler_end_scope(cur(p), p.previous.line))

\* Assembler::add_local
add_local(p, token) ==
    IF ~(Len(cur(p).locals) < MAX_SCOPE_SIZE)
    THEN error(p, "Too many local variables in function")
    ELSE with_cur(p, [cur(p) EXCEPT !.locals = Append(@, local_with_name(token.text))])

\* Assembler::declare_variable
declare_variable(p) ==
    IF cur(p).depth = 0 THEN p
    ELSE add_local(IF has_declared_variable(cur(p), p.previous.text)
                   THEN error(p, "Already a variable with this name in this scope")
                   ELSE p,
                   p.previous)

\* Assembler::parse_variable
parse_variable(p, message) ==
    Then(declare_variable(consume(p, "Identifier", message)), LAMBDA p1 :
        IF cur(p1).depth > 0 THEN [p |-> p1, idx |-> 0]
        ELSE identifier_constant(p1, p1.previous))

\* Assembler::define_variable
define_variable(p, global) ==
    IF cur(p).depth > 0 THEN with_cur(p, mark_initialized(cur(p)))
    ELSE emit_instruction(p, I1("DefineGlobal", global))

\* Assembler::mark_start_loop
mark_start_loop(p) ==
    [p EXCEPT !.loop_stack = Append(@, [start |-> chunk_position(cur(p)), breaks |-> <<>>])]

\* the patch loop of Assembler::flush_loop and Assembler::switch_statement
RECURSIVE patch_jumps(_, _)
patch_jumps(p, offsets) ==
    IF offsets = <<>> THEN p
    ELSE patch_jumps(patch_jump(p, Head(offsets)), Tail(offsets))

\* Assembler::flush_loop
flush_loop(p) ==
    IF p.loop_stack = <<>> THEN error(p, "Bug: loop_stack is broken")
    ELSE patch_jumps([p EXCEPT !.loop_stack = Front(@)], Last(p.loop_stack).breaks)

\* ghost: record that a statement starts at the current chunk position
\* with the current number of declared locals
mark_statement(p) ==
    LET m == [pos |-> chunk_position(cur(p)), n |-> Len(cur(p).locals)]
    IN  IF \E k \in 1..Len(cur(p).func.marks) : cur(p).func.marks[k] = m THEN p
        ELSE with_cur(p, [cur(p) EXCEPT !.func.marks = Append(@, m)])

(***************************************************************************)
(* Expressions (frontend/assembler.rs, frontend/rule.rs)                   *)
(***************************************************************************)
\* Precedence as u8
Precedence ==
    [None |-> 0, Assignment |-> 1, Or |-> 2, And |-> 3, Equality |-> 4,
     Comparison |-> 5, Term |-> 6, Factor |-> 7, Unary |-> 8, Call |-> 9,
     Primary |-> 10]

\* Precedence::increased
increased(prec) == IF prec = Precedence.Primary THEN prec ELSE prec + 1

\* ParseRule::new; "none" stands for an absent parse function
ParseRule(prefix, infix, precedence) ==
    [prefix |-> prefix, infix |-> infix, precedence |-> precedence]

\* Assembler::get_rule
get_rule(t_type) ==
    CASE t_type = "LeftParenthesis" -> ParseRule("grouping", "call", Precedence.Call)
      [] t_type = "Minus" -> ParseRule("unary", "binary", Precedence.Term)
      [] t_type = "Plus" -> ParseRule("none", "binary", Precedence.Term)
      [] t_type \in {"Slash", "Star"} -> ParseRule("none", "binary", Precedence.Factor)
      [] t_type = "Number" -> ParseRule("number", "none", Precedence.None)
      [] t_type \in {"Nil", "False", "True"} -> ParseRule("literal", "none", Precedence.None)
      [] t_type = "Bang" -> ParseRule("unary", "none", Precedence.None)
      [] t_type \in {"EqualEqual", "BangEqual"} -> ParseRule("none", "binary", Precedence.Equality)
      [] t_type \in {"Greater", "GreaterEqual", "Less", "LessEqual"} ->
            ParseRule("none", "binary", Precedence.Comparison)
      [] t_type = "String" -> ParseRule("string", "none", Precedence.None)
      [] t_type = "Identifier" -> ParseRule("variable", "none", Precedence.None)
      [] t_type = "And" -> ParseRule("none", "and", Precedence.And)
      [] t_type = "Or" -> ParseRule("none", "or", Precedence.Or)
      [] t_type = "Dot" -> ParseRule("none", "dot", Precedence.Call)
      [] t_type = "This" -> ParseRule("this", "none", Precedence.None)
      [] OTHER -> ParseRule("none", "none", Precedence.None)

\* parse_precedence and statement are reached again from the functions they
\* call; every such call goes through parse, which dispatches on the
\* function's name
RECURSIVE parse(_, _, _)

\* Assembler::expression
expression(p) == parse("parse_precedence", p, Precedence.Assignment)

\* the instructions Assembler::named_variable chooses for a name: those of
\* a local, else of an upvalue (Assembler::resolve_upvalue), else of a global
resolve_name(p, token) ==
    Then(resolve_local(cur(p), token.text), LAMBDA info :
        IF IsSome(info)
        THEN [p |-> IF ~IsSome(Unwrap(info).depth)
                    THEN error(p, "Can't read local variable in its own initializer")
                    ELSE p,
              get |-> I1("GetLocal", Unwrap(info).index),
              set |-> I1("SetLocal", Unwrap(info).index)]
        ELSE Then(resolve_upvalue(p.compilers, Len(p.compilers), token.text), LAMBDA up :
            IF up.res = "NotFound"
            THEN Then(identifier_constant([p EXCEPT !.compilers = up.cs], token), LAMBDA mc :
                    [p |-> mc.p, get |-> I1("GetGlobal", mc.idx),
                     set |-> I1("SetGlobal", mc.idx)])
            ELSE [p |-> IF up.res = "Error"
                        THEN error([p EXCEPT !.compilers = up.cs],
                                   "Too many closure variables in function")
                        ELSE [p EXCEPT !.compilers = up.cs],
                  get |-> I1("GetUpvalue", up.index),
                  set |-> I1("SetUpvalue", up.index)]))

\* the tail of Assembler::named_variable: an assignment or a read
emit_get_or_set(r, can_assign) ==
    IF can_assign /\ check(r.p, "Equal")
    THEN Then(expression(advance(r.p)), LAMBDA p1 : emit_instruction(p1, r.set))
    ELSE emit_instruction(r.p, r.get)

\* Assembler::named_variable
named_variable(p, token, can_assign) ==
    emit_get_or_set(resolve_name(p, token), can_assign)

\* Assembler::variable
variable(p, can_assign) == named_variable(p, p.previous, can_assign)

\* Assembler::this
this(p) ==
    IF p.class_compilers = 0 THEN error(p, "Can't use 'this' outside of a class")
    ELSE variable(p, FALSE)

\* Assembler::grouping
grouping(p) ==
    Then(expression(p), LAMBDA p1 :
        consume(p1, "RightParenthesis", "Expect ')' after expression"))

\* Assembler::literal
literal(p) ==
    emit_instruction(p, CASE p.previous.t_type = "False" -> I0("False")
                          [] p.previous.t_type = "True" -> I0("True")
                          [] p.previous.t_type = "Nil" -> I0("Nil"))

\* Assembler::number
number(p) == emit_constant(p, Number(number_from(p.previous.text)))

\* Assembler::string
string(p) == emit_constant(p, Text(string_content(p.previous.text)))

\* Assembler::unary
unary(p) ==
    Then(parse("parse_precedence", p, Precedence.Unary), LAMBDA p1 :
        emit_instruction(p1, IF p.previous.t_type = "Minus"
                             THEN I0("Negate") ELSE I0("Not")))

\* Assembler::emit_instructions
RECURSIVE emit_instructions(_, _)
emit_instructions(p, ops) ==
    IF ops = <<>> THEN p
    ELSE emit_instructions(emit_instruction(p, I0(Head(ops))), Tail(ops))

\* the instructions Assembler::binary emits for an operator
binary_instructions(operator_type) ==
    CASE operator_type = "BangEqual" -> <<"Equal", "Not">>
      [] operator_type = "EqualEqual" -> <<"Equal">>
      [] operator_type = "Greater" -> <<"Greater">>
      [] operator_type = "GreaterEqual" -> <<"Less", "Not">>
      [] operator_type = "Less" -> <<"Less">>
      [] operator_type = "LessEqual" -> <<"Greater", "Not">>
      [] operator_type = "Plus" -> <<"Add">>
      [] operator_type = "Minus" -> <<"Subtract">>
      [] operator_type = "Star" -> <<"Multiply">>
      [] operator_type = "Slash" -> <<"Divide">>

\* Assembler::binary
binary(p) ==
    Then(parse("parse_precedence", p,
               increased(get_rule(p.previous.t_type).precedence)), LAMBDA p1 :
        emit_instructions(p1, binary_instructions(p.previous.t_type)))

\* Assembler::and
and(p) ==
    Then(parse("parse_precedence",
               emit_instruction(emit_instruction(p, stub_jump_if_false), I0("Pop")),
               Precedence.And), LAMBDA p1 :
        patch_jump(p1, chunk_position(cur(p))))

\* Assembler::or: the else jump sits at the current position, the end jump
\* right after it
or(p) ==
    Then(parse("parse_precedence",
               emit_instruction(
                   patch_jump(emit_instruction(emit_instruction(p, stub_jump_if_false),
                                               stub_jump),
                              chunk_position(cur(p))),
                   I0("Pop")),
               Precedence.Or), LAMBDA p1 :
        patch_jump(p1, chunk_position(cur(p)) + size(stub_jump_if_false)))

\* the loop of Assembler::argument_list
RECURSIVE argument_loop(_, _)
argument_loop(p, arg_count) ==
    Then(expression(p), LAMBDA p1 :
    Then(IF arg_count = MAX_FUNCTION_ARGUMENTS
         THEN error(p1, "Can't have more than 255 arguments") ELSE p1, LAMBDA p2 :
        IF check(p2, "Comma") THEN argument_loop(advance(p2), arg_count + 1)
        ELSE [p |-> p2, n |-> arg_count + 1]))

\* Assembler::argument_list
argument_list(p) ==
    Then(IF ~check(p, "RightParenthesis") THEN argument_loop(p, 0)
         ELSE [p |-> p, n |-> 0], LAMBDA a :
        [p |-> consume(a.p, "RightParenthesis", "Expect ')' after arguments"),
         n |-> a.n])

\* Assembler::call
call(p) ==
    Then(argument_list(p), LAMBDA a :
        emit_instruction(a.p, I1("Call", a.n % UINT8_COUNT)))

\* the constant of the identifier just consumed
previous_constant(p) == identifier_constant(p, p.previous)

\* Assembler::dot
dot(p, can_assign) ==
    Then(previous_constant(consume(p, "Identifier", "Expect property name after '.'")),
         LAMBDA name :
        IF can_assign /\ check(name.p, "Equal")
        THEN Then(expression(advance(name.p)), LAMBDA p2 :
                emit_instruction(p2, I1("SetProperty", name.idx)))
        ELSE emit_instruction(name.p, I1("GetProperty", name.idx)))

\* the call of a rule's prefix function
prefix_rule(name, p, can_assign) ==
    CASE name = "grouping" -> grouping(p)
      [] name = "unary" -> unary(p)
      [] name = "number" -> number(p)
      [] name = "literal" -> literal(p)
      [] name = "string" -> string(p)
      [] name = "variable" -> variable(p, can_assign)
      [] name = "this" -> this(p)

\* the call of a rule's infix function
infix_rule(name, p, can_assign) ==
    CASE name = "call" -> call(p)
      [] name = "binary" -> binary(p)
      [] name = "and" -> and(p)
      [] name = "or" -> or(p)
      [] name = "dot" -> dot(p, can_assign)

\* the end of Assembler::parse_precedence: a '=' left over is an error
check_assignment_target(p, can_assign) ==
    IF can_assign /\ check(p, "Equal")
    THEN error(advance(p), "Invalid assignment target")
    ELSE p

\* the infix loop of Assembler::parse_precedence and the check after it
RECURSIVE infix_loop(_, _, _)
infix_loop(p, precedence, can_assign) ==
    IF precedence <= get_rule(p.current.t_type).precedence
    THEN Then(infix_rule(get_rule(p.current.t_type).infix, advance(p), can_assign),
              LAMBDA p2 : infix_loop(p2, precedence, can_assign))
    ELSE check_assignment_target(p, can_assign)

\* parse_precedence that reports a token without a prefix rule where it
\* stands, without advancing over it
parse_precedence_peek(p, precedence) ==
    IF get_rule(p.current.t_type).prefix = "none"
    THEN error_at_current(p, "Expect expression")
    ELSE Then(prefix_rule(get_rule(p.current.t_type).prefix, advance(p),
                          precedence <= Precedence.Assignment), LAMBDA p2 :
            infix_loop(p2, precedence, precedence <= Precedence.Assignment))

\* Assembler::parse_precedence; the token it advances over selects the
\* prefix rule
parse_precedence(p, precedence) ==
    IF get_rule(p.current.t_type).prefix = "none"
    THEN error(advance(p), "Expect expression")
    ELSE Then(prefix_rule(get_rule(p.current.t_type).prefix, advance(p),
                          precedence <= Precedence.Assignment), LAMBDA p2 :
            infix_loop(p2, precedence, precedence <= Precedence.Assignment))

(***************************************************************************)
(* Declarations and statements (frontend/assembler.rs)                     *)
(***************************************************************************)
\* Assembler::var_declaration after the name
var_initializer(global) ==
    IF check(global.p, "Equal")
    THEN Then(expression(advance(global.p)), LAMBDA p1 :
            define_variable(
                consume(p1, "Semicolon", "Expect ';' after variable declaration"),
                global.idx))
    ELSE define_variable(
            consume(emit_instruction(global.p, I0("Nil")),
                    "Semicolon", "Expect ';' after variable declaration"),
            global.idx)

\* Assembler::var_declaration
var_declaration(p) == var_initializer(parse_variable(p, "Expect variable name"))

\* Assembler::expression_statement
expression_statement(p) ==
    Then(expression(p), LAMBDA p1 :
        emit_instruction(consume(p1, "Semicolon", "Expect ';' after value"), I0("Pop")))

\* Assembler::print_statement
print_statement(p) ==
    Then(expression(p), LAMBDA p1 :
        emit_instruction(consume(p1, "Semicolon", "Expect ';' after value"),
                         I0("Print")))

\* Assembler::return_statement after the check of the function type
return_value(p) ==
    IF check(p, "Semicolon") THEN emit_return(advance(p))
    ELSE Then(expression(p), LAMBDA p2 :
            emit_instruction(
                consume(p2, "Semicolon", "Expect ';' after return value"),
                I0("Return")))

\* Assembler::return_statement
return_statement(p) ==
    return_value(IF cur(p).func_type = "Script"
                 THEN error(p, "Can't return from top-level code") ELSE p)

\* Assembler::block: the declarations up to the closing brace, and the brace
RECURSIVE block(_)
block(p) ==
    IF p.current.t_type \in {"RightBrace", "Eof"}
    THEN consume(p, "RightBrace", "Expect '}' after block")
    ELSE block(parse("declaration", p, 0))

\* the parameter loop of Assembler::function
RECURSIVE function_params(_)
function_params(p) ==
    Then(with_cur(p, [cur(p) EXCEPT !.func.arity = @ + 1]), LAMBDA p1 :
    Then(parse_variable(IF cur(p1).func.arity > MAX_FUNCTION_ARGUMENTS
                        THEN error_at_current(p1, "Can't have more than 255 parameters")
                        ELSE p1,
                        "Expect parameter name"), LAMBDA constant :
    Then(define_variable(constant.p, constant.idx), LAMBDA p3 :
        IF check(p3, "Comma") THEN function_params(advance(p3)) ELSE p3)))

\* the head of Assembler::function: a new compiler and scope, the
\* parameters, and the brace that opens the body
function_head(p, func_type) ==
    Then(consume(begin_scope(init_compiler(p, func_type)), "LeftParenthesis",
                 "Expect '(' after function name"), LAMBDA p1 :
        consume(
            consume(IF ~check(p1, "RightParenthesis") THEN function_params(p1) ELSE p1,
                    "RightParenthesis", "Expect ')' after parameters"),
            "LeftBrace", "Expect '{' before function body"))

\* emit_closure that leaves out the last upvalue descriptor
emit_closure_short(e) ==
    Then(make_constant(e.p, Fun(e.c.func)), LAMBDA mc :
    Then(emit_instruction(mc.p, I1("Closure", mc.idx)), LAMBDA p5 :
        with_cur(p5, emit_buffer(cur(p5),
            Flatten([ k \in 1..(e.c.func.upvalue_count - 1) |-> upvalue_as_vec(e.c.upvalues[k]) ]),
            p5.previous.line))))

\* the end of Assembler::function: the finished function becomes a
\* constant of the enclosing chunk, loaded by Closure and followed by its
\* upvalue descriptors
emit_closure(e) ==
    Then(make_constant(e.p, Fun(e.c.func)), LAMBDA mc :
    Then(emit_instruction(mc.p, I1("Closure", mc.idx)), LAMBDA p5 :
        with_cur(p5, emit_buffer(cur(p5),
            Flatten([ k \in 1..e.c.func.upvalue_count |-> upvalue_as_vec(e.c.upvalues[k]) ]),
            p5.previous.line))))

\* Assembler::function
function(p, func_type) ==
    Then(block(function_head(p, func_type)), LAMBDA p3 :
        emit_closure(end_compiler(p3)))

\* Assembler::fun_declaration after the name
fun_named(global) ==
    Then(function(with_cur(global.p, mark_initialized(cur(global.p))), "Function"),
         LAMBDA p1 :
        define_variable(p1, global.idx))

\* Assembler::fun_declaration
fun_declaration(p) == fun_named(parse_variable(p, "Expect function name"))

\* Assembler::method after the name
method_named(mc) ==
    Then(function(mc.p, IF mc.p.previous.text = INITIALIZER_METHOD_NAME
                        THEN "Initializer" ELSE "Method"), LAMBDA p2 :
        emit_instruction(p2, I1("Method", mc.idx)))

\* Assembler::method
method(p) ==
    method_named(previous_constant(consume(p, "Identifier", "Expect method name")))

\* the method loop of Assembler::class_declaration
RECURSIVE class_methods(_)
class_methods(p) ==
    IF p.current.t_type \in {"RightBrace", "Eof"} THEN p
    ELSE class_methods(method(p))

\* the body of a class declaration: the class is loaded again, the
\* methods are attached to it and it is popped
class_body(p, class_name) ==
    Then(class_methods(
            consume(named_variable([p EXCEPT !.class_compilers = @ + 1],
                                   class_name, FALSE),
                    "LeftBrace", "Expect '{' before class body")), LAMBDA p3 :
        [emit_instruction(consume(p3, "RightBrace", "Expect '}' after class body"),
                          I0("Pop"))
            EXCEPT !.class_compilers = @ - 1])

\* Assembler::class_declaration after the name
class_named(mc) ==
    class_body(
        define_variable(
            emit_instruction(declare_variable(mc.p), I1("Class", mc.idx)), mc.idx),
        mc.p.previous)

\* Assembler::class_declaration
class_declaration(p) ==
    class_named(previous_constant(consume(p, "Identifier", "Expect class name")))

\* the else branch of Assembler::if_statement
if_else(p, else_jump) ==
    IF check(p, "Else")
    THEN Then(parse("statement", advance(p), 0), LAMBDA p4 : patch_jump(p4, else_jump))
    ELSE patch_jump(p, else_jump)

\* the then branch of Assembler::if_statement
if_then(p) ==
    Then(parse("statement",
               emit_instruction(emit_instruction(p, stub_jump_if_false), I0("Pop")), 0),
         LAMBDA p2 :
        if_else(emit_instruction(
                    patch_jump(emit_instruction(p2, stub_jump), chunk_position(cur(p))),
                    I0("Pop")),
                chunk_position(cur(p2))))

\* Assembler::if_statement
if_statement(p) ==
    Then(expression(consume(p, "LeftParenthesis", "Expect '(' after 'if'")), LAMBDA p0 :
        if_then(consume(p0, "RightParenthesis", "Expect ')' after condition")))

\* the loop of Assembler::switch_branch_statement
RECURSIVE switch_branch_loop(_)
switch_branch_loop(p) ==
    IF p.current.t_type \in {"Case", "DefaultCase", "RightBrace", "Eof"} THEN p
    ELSE switch_branch_loop(parse("statement", p, 0))

\* Assembler::switch_branch_statement
switch_branch_statement(p) == switch_branch_loop(emit_instruction(p, I0("Pop")))

\* one `case` of Assembler::switch_statement: the state after it and the
\* offset of its exit jump
switch_case(p) ==
    Then(expression(emit_instruction(p, I0("Duplicate"))), LAMBDA p0 :
    Then(emit_instruction(consume(p0, "Colon", "Expect ':' after case expression"),
                          I0("Equal")), LAMBDA p1 :
    Then(switch_branch_statement(
            emit_instruction(emit_instruction(p1, stub_jump_if_false), I0("Pop"))),
         LAMBDA p2 :
        [p |-> emit_instruction(
                    patch_jump(emit_instruction(p2, stub_jump), chunk_position(cur(p1))),
                    I0("Pop")),
         exit_jump |-> chunk_position(cur(p2))])))

\* the `default` of Assembler::switch_statement: the state after it, the
\* offset of its exit jump and the offset of its block
switch_default(p, default_offset) ==
    Then(consume(IF IsSome(default_offset)
                 THEN error(p, "Multiple default labels in one switch") ELSE p,
                 "Colon", "Expect ':' after default case"), LAMBDA p1 :
    Then(switch_branch_statement(emit_instruction(p1, stub_jump)), LAMBDA p3 :
        [p |-> patch_jump(emit_instruction(p3, stub_jump), chunk_position(cur(p1))),
         exit_jump |-> chunk_position(cur(p3)),
         offset |-> chunk_position(cur(p1)) + size(stub_jump)]))

\* the loop of Assembler::switch_statement
RECURSIVE switch_cases(_, _, _)
switch_cases(p, exit_jumps, default_offset) ==
    IF check(p, "Case")
    THEN Then(switch_case(advance(p)), LAMBDA c :
            switch_cases(c.p, Append(exit_jumps, c.exit_jump), default_offset))
    ELSE IF check(p, "DefaultCase")
    THEN Then(switch_default(advance(p), default_offset), LAMBDA d :
            switch_cases(d.p, Append(exit_jumps, d.exit_jump), Some(d.offset)))
    ELSE [p |-> p, exit_jumps |-> exit_jumps, default_offset |-> default_offset]

\* switch_statement without the jump back to the default block
switch_statement_no_default(p) ==
    Then(expression(consume(p, "LeftParenthesis", "Expect '(' after 'if'")), LAMBDA p0 :
    Then(switch_cases(
            consume(consume(p0, "RightParenthesis", "Expect ')' after condition"),
                    "LeftBrace", "Expect '{' after 'switch' statement"),
            <<>>, None), LAMBDA s :
    Then(consume(s.p, "RightBrace", "Expect '}' after 'switch' block"), LAMBDA p2 :
        patch_jumps(p2, s.exit_jumps))))

\* Assembler::switch_statement
switch_statement(p) ==
    Then(expression(consume(p, "LeftParenthesis", "Expect '(' after 'if'")), LAMBDA p0 :
    Then(switch_cases(
            consume(consume(p0, "RightParenthesis", "Expect ')' after condition"),
                    "LeftBrace", "Expect '{' after 'switch' statement"),
            <<>>, None), LAMBDA s :
    Then(consume(s.p, "RightBrace", "Expect '}' after 'switch' block"), LAMBDA p2 :
        patch_jumps(IF IsSome(s.default_offset)
                    THEN emit_loop(p2, Unwrap(s.default_offset)) ELSE p2,
                    s.exit_jumps))))

\* the body of Assembler::while_statement
while_body(p, loop_start) ==
    Then(parse("statement",
               emit_instruction(emit_instruction(p, stub_jump_if_false), I0("Pop")), 0),
         LAMBDA p2 :
        flush_loop(
            emit_instruction(
                patch_jump(emit_loop(p2, loop_start), chunk_position(cur(p))),
                I0("Pop"))))

\* Assembler::while_statement
while_statement(p) ==
    Then(expression(consume(mark_start_loop(p), "LeftParenthesis",
                            "Expect '(' after 'while'")), LAMBDA p0 :
        while_body(consume(p0, "RightParenthesis", "Expect ')' after condition"),
                   chunk_position(cur(p))))

\* the condition clause of Assembler::for_statement: the state after it
\* and the offset of the exit jump, if there is a condition
for_condition(p) ==
    IF check(p, "Semicolon") THEN [p |-> advance(p), exit_jump |-> None]
    ELSE Then(expression(p), LAMBDA p2 :
         Then(consume(p2, "Semicolon", "Expect ';' after loop condition"), LAMBDA p3 :
            [p |-> emit_instruction(emit_instruction(p3, stub_jump_if_false), I0("Pop")),
             exit_jump |-> Some(chunk_position(cur(p3)))]))

\* the increment clause of Assembler::for_statement: the state after it
\* and the offset the body loops back to
for_increment(p, loop_start) ==
    IF check(p, "RightParenthesis") THEN [p |-> advance(p), loop_start |-> loop_start]
    ELSE Then(expression(emit_instruction(p, stub_jump)), LAMBDA p5 :
            [p |-> patch_jump(
                        emit_loop(
                            consume(emit_instruction(p5, I0("Pop")),
                                    "RightParenthesis", "Expect ')' after for clauses"),
                            loop_start),
                        chunk_position(cur(p))),
             loop_start |-> chunk_position(cur(p)) + size(stub_jump)])

\* Assembler::for_statement after the initializer; the loop is marked at
\* the condition, and the mark stays there when there is an increment
for_clauses(p, loop_start) ==
    Then(for_condition(p), LAMBDA c :
    Then(for_increment(c.p, loop_start), LAMBDA i :
    Then(parse("statement", i.p, 0), LAMBDA p7 :
        end_scope(flush_loop(
            IF IsSome(c.exit_jump)
            THEN emit_instruction(
                    patch_jump(emit_loop(p7, i.loop_start), Unwrap(c.exit_jump)),
                    I0("Pop"))
            ELSE emit_loop(p7, i.loop_start))))))

\* Assembler::for_statement
for_statement(p) ==
    Then(consume(begin_scope(p), "LeftParenthesis", "Expect '(' after 'for'"), LAMBDA p0 :
    Then(IF check(p0, "Semicolon") THEN advance(p0)
         ELSE IF check(p0, "Var") THEN var_declaration(advance(p0))
         ELSE expression_statement(p0), LAMBDA p1 :
        for_clauses(mark_start_loop(p1), chunk_position(cur(p1)))))

\* break_statement that records the jump for the outermost loop
break_statement_outer(p) ==
    Then(consume(p, "Semicolon", "Expect ';' after 'break'"), LAMBDA p1 :
    Then(IF p1.loop_stack = <<>>
         THEN error(p1, "'break' statement allowed inside loops only") ELSE p1, LAMBDA p2 :
    Then(emit_instruction(emit_instruction(p2, stub_jump), I0("Pop")), LAMBDA p3 :
        IF p3.loop_stack = <<>> THEN error(p3, "Bug: loop stack became empty")
        ELSE [p3 EXCEPT !.loop_stack[1].breaks =
                            Append(@, chunk_position(cur(p2)))])))

\* Assembler::break_statement
break_statement(p) ==
    Then(consume(p, "Semicolon", "Expect ';' after 'break'"), LAMBDA p1 :
    Then(IF p1.loop_stack = <<>>
         THEN error(p1, "'break' statement allowed inside loops only") ELSE p1, LAMBDA p2 :
    Then(emit_instruction(emit_instruction(p2, stub_jump), I0("Pop")), LAMBDA p3 :
        IF p3.loop_stack = <<>> THEN error(p3, "Bug: loop stack became empty")
        ELSE [p3 EXCEPT !.loop_stack[Len(p3.loop_stack)].breaks =
                            Append(@, chunk_position(cur(p2)))])))

\* continue_statement that accepts a `continue` outside of a loop
continue_statement_anywhere(p) ==
    Then(consume(p, "Semicolon", "Expect ';' after 'continue'"), LAMBDA p1 :
        IF p1.loop_stack = <<>> THEN p1
        ELSE emit_loop(p1, Last(p1.loop_stack).start))

\* Assembler::continue_statement
continue_statement(p) ==
    Then(consume(p, "Semicolon", "Expect ';' after 'continue'"), LAMBDA p1 :
        IF p1.loop_stack = <<>>
        THEN error(p1, "'continue' statement allowed inside loops only")
        ELSE emit_loop(p1, Last(p1.loop_stack).start))

\* Assembler::statement
statement(p) ==
    CASE check(p, "Print") -> print_statement(advance(p))
      [] check(p, "Break") -> break_statement(advance(p))
      [] check(p, "Continue") -> continue_statement(advance(p))
      [] check(p, "For") -> for_statement(advance(p))
      [] check(p, "If") -> if_statement(advance(p))
      [] check(p, "Return") -> return_statement(advance(p))
      [] check(p, "Switch") -> switch_statement(advance(p))
      [] check(p, "While") -> while_statement(advance(p))
      [] check(p, "LeftBrace") ->
            Then(block(begin_scope(advance(p))), LAMBDA p1 : end_scope(p1))
      [] OTHER -> expression_statement(p)

\* the loop of Assembler::synchronize
RECURSIVE synchronize_loop(_)
synchronize_loop(p) ==
    IF p.current.t_type = "Eof" THEN p
    ELSE IF p.previous.t_type = "Semicolon" THEN p
    ELSE IF p.current.t_type \in {"Class", "Fun", "Var", "For", "If", "While",
                                  "Print", "Return"} THEN p
    ELSE synchronize_loop(advance(p))

\* Assembler::synchronize
synchronize(p) == synchronize_loop([p EXCEPT !.panic_mode = FALSE])

\* Assembler::declaration; the start of a declaration or statement is
\* recorded (ghost) before it is compiled
declaration(p) ==
    Then(CASE check(p, "Class") -> class_declaration(advance(mark_statement(p)))
           [] check(p, "Fun") -> fun_declaration(advance(mark_statement(p)))
           [] check(p, "Var") -> var_declaration(advance(mark_statement(p)))
           [] OTHER -> statement(mark_statement(p)), LAMBDA p1 :
        IF p1.panic_mode THEN synchronize(p1) ELSE p1)

\* the nested calls of parse_precedence and of statement; the start of a
\* statement is recorded (ghost) before it is compiled
parse(rule, p, precedence) ==
    CASE rule = "parse_precedence" -> parse_precedence(p, precedence)
      [] rule = "statement" -> statement(mark_statement(p))
      [] rule = "declaration" -> declaration(p)

\* the loop of Assembler::compile
RECURSIVE compile_loop(_)
compile_loop(p) ==
    IF check(p, "Eof") THEN advance(p) ELSE compile_loop(parse("declaration", p, 0))

\* compile that returns the function although errors were recorded
compile_despite_errors(toks) ==
    Then(compile_loop(advance(init_compiler(assembler_new(toks), "Script"))),
         LAMBDA p1 :
    Then(end_compiler(p1), LAMBDA e :
        IF e.p.aborted THEN [kind |-> "Panic", func |-> default_func, errors |-> <<>>]
        ELSE [kind |-> "Ok", func |-> e.c.func, errors |-> e.p.errors]))

\* Assembler::compile: Ok(func), Err(errors), or a panic of the compiler
compile(toks) ==
    Then(compile_loop(advance(init_compiler(assembler_new(toks), "Script"))),
         LAMBDA p1 :
    Then(end_compiler(p1), LAMBDA e :
        IF e.p.aborted THEN [kind |-> "Panic", func |-> default_func, errors |-> <<>>]
        ELSE IF e.p.errors # <<>>
        THEN [kind |-> "Err", func |-> default_func, errors |-> e.p.errors]
        ELSE [kind |-> "Ok", func |-> e.c.func, errors |-> <<>>]))

(***************************************************************************)
(* The virtual machine (backend/machine.rs).  A machine m is the record of *)
(* Machine's fields and of the objects they refer to: Rc<Closure>,         *)
(* Shared<Upvalue>, Rc<Class>, Rc<Instance> and Rc<BoundMethod> are        *)
(* 1-based ids into m.closures, m.cells, m.classes, m.instances and        *)
(* m.bounds, so that sharing and identity are explicit.  printed and       *)
(* console are what the backend service and stdout have received.          *)
(*                                                                         *)
(* Every operation returns a result: kind "Ok" (with the value val),       *)
(* "Halt" (the dispatch loop ends), "Err" (a MachineError, err) or "Panic" *)
(* (the Rust code panics: index out of bounds, arithmetic underflow).      *)
(***************************************************************************)
EmptyMap == [name \in {} |-> Nil]

\* MachineError::with_str: an error without a line
with_str(text) == [text |-> text, line_number |-> None]

Ok(m) == [kind |-> "Ok", m |-> m, val |-> Nil, err |-> with_str("")]
OkVal(m, val) == [kind |-> "Ok", m |-> m, val |-> val, err |-> with_str("")]
Halt(m) == [kind |-> "Halt", m |-> m, val |-> Nil, err |-> with_str("")]
Err(m, err) == [kind |-> "Err", m |-> m, val |-> Nil, err |-> err]
Panic(m) == [kind |-> "Panic", m |-> m, val |-> Nil, err |-> with_str("")]

\* the `?` operator: continue with the value of an Ok result
Bind(r, F(_, _)) == IF r.kind = "Ok" THEN F(r.m, r.val) ELSE r

\* Chunk::line_number
line_number(chunk, idx) ==
    IF idx < Len(chunk.line) THEN Some(chunk.line[idx + 1]) ELSE None

\* Chunk::read_const
chunk_read_const(chunk, idx) ==
    IF idx < Len(chunk.constants) THEN Some(chunk.constants[idx + 1]) ELSE None

\* Machine::frame and the chunk of its closure (CallFrame::chunk)
frame(m) == Last(m.frames)
frame_func(m) == m.closures[frame(m).closure].func
frame_chunk(m) == frame_func(m).chunk

\* Machine::runtime_error: the line is the line table's entry at ip - 1
runtime_error(m, message) ==
    [text |-> message,
     line_number |-> IF m.frames = <<>> THEN None
                     ELSE line_number(frame_chunk(m), frame(m).ip - 1)]

\* Machine::flush_track_trace: newest frame first, each with the line at ip
flush_track_trace(m) ==
    [ k \in 1..Len(m.frames) |->
        LET f == m.frames[Len(m.frames) + 1 - k]
        IN  [line |-> line_number(m.closures[f.closure].func.chunk, f.ip),
             func_name |-> m.closures[f.closure].func.name] ]

\* stack_push that refuses only a stack already above the limit
stack_push_above(m, value) ==
    IF Len(m.stack) > STACK_MAX_SIZE THEN Err(m, runtime_error(m, "Stack overflow"))
    ELSE Ok([m EXCEPT !.stack = Append(@, value)])

\* Machine::stack_push
stack_push(m, value) ==
    IF Len(m.stack) >= STACK_MAX_SIZE THEN Err(m, runtime_error(m, "Stack overflow"))
    ELSE Ok([m EXCEPT !.stack = Append(@, value)])

\* Machine::stack_pop
stack_pop(m) ==
    IF m.stack = <<>> THEN Err(m, runtime_error(m, "Pop on empty stack"))
    ELSE OkVal([m EXCEPT !.stack = Front(@)], Last(m.stack))

\* Machine::stack_peek_at
stack_peek_at(m, rev_index) ==
    IF rev_index >= Len(m.stack)
    THEN Err(m, with_str("Bug: trying access stack with invalid index "
                         \o ToString(rev_index)))
    ELSE OkVal(m, m.stack[Len(m.stack) - rev_index])

\* Machine::stack_peek
stack_peek(m) == stack_peek_at(m, 0)

\* Machine::stack_get
stack_get(m, index) ==
    IF index < Len(m.stack) THEN OkVal(m, m.stack[index + 1])
    ELSE Err(m, with_str("Bug: invalid stack index (" \o ToString(index) \o ")"))

\* Machine::read_const
read_const(m, index) ==
    IF IsSome(chunk_read_const(frame_chunk(m), index))
    THEN OkVal(m, Unwrap(chunk_read_const(frame_chunk(m), index)))
    ELSE Err(m, runtime_error(m, "Invalid constant index"))

\* Machine::read_const_string
read_const_string(m, index) ==
    Bind(read_const(m, index), LAMBDA m1, name :
        IF name.t = "Text" THEN OkVal(m1, name.s)
        ELSE Err(m1, runtime_error(m1, "Bug: failed to fetch constant")))

\* Display for Func
func_display(func) ==
    IF IsSome(func.name) THEN "<fn " \o Unwrap(func.name) \o ">" ELSE "<script>"

\* Display for Value (and for Class, Instance, BoundMethod, NativeFunc)
RECURSIVE value_display(_, _)
value_display(m, v) ==
    CASE v.t = "Nil" -> "nil"
      [] v.t = "Bool" -> IF v.b THEN "true" ELSE "false"
      [] v.t = "Number" -> ToString(v.n)
      [] v.t = "Text" -> v.s
      [] v.t = "Fun" -> func_display(v.func)
      [] v.t = "NativeFun" -> "<native fn>"
      [] v.t = "Closure" -> func_display(m.closures[v.id].func)
      [] v.t = "Class" -> "<class " \o m.classes[v.id].name \o ">"
      [] v.t = "Instance" ->
            "<" \o m.classes[m.instances[v.id].class].name \o " instance>"
      [] v.t = "BoundMethod" ->
            "<bound " \o func_display(m.closures[m.bounds[v.id].method].func)
                \o " for " \o value_display(m, m.bounds[v.id].receiver) \o ">"

\* Value::add, subtract, multiply, divide, equals, greater, less
\* (numbers are integers: the programs of the catalogue divide exactly)
value_operation(m, operation, a, b) ==
    LET numbers == a.t = "Number" /\ b.t = "Number"
        ok(v) == [ok |-> TRUE, val |-> v, err |-> ""]
        mismatch == [ok |-> FALSE, val |-> Nil, err |-> "TypeMismatch"]
    IN  CASE operation = "Equal" -> ok(Bool(value_eq(a, b)))
          [] operation = "Add" ->
                IF numbers THEN ok(Number(a.n + b.n))
                ELSE IF b.t = "Text" THEN ok(Text(value_display(m, a) \o b.s))
                ELSE IF a.t = "Text" THEN ok(Text(a.s \o value_display(m, b)))
                ELSE mismatch
          [] operation = "Subtract" -> IF numbers THEN ok(Number(a.n - b.n)) ELSE mismatch
          [] operation = "Multiply" -> IF numbers THEN ok(Number(a.n * b.n)) ELSE mismatch
          [] operation = "Divide" ->
                IF numbers /\ b.n = 0
                THEN [ok |-> FALSE, val |-> Nil, err |-> "DivisionByZero"]
                ELSE IF numbers THEN ok(Number(a.n \div b.n)) ELSE mismatch
          [] operation = "Greater" -> IF numbers THEN ok(Bool(a.n > b.n)) ELSE mismatch
          [] operation = "Less" -> IF numbers THEN ok(Bool(a.n < b.n)) ELSE mismatch

(***************************************************************************)
(* The instruction handlers of Machine                                     *)
(***************************************************************************)
\* CallFrame::ip_inc / CallFrame::ip_dec on the current frame
ip_inc(m, val) == [m EXCEPT !.frames[Len(m.frames)].ip = @ + val]
ip_dec(m, val) == [m EXCEPT !.frames[Len(m.frames)].ip = @ - val]

\* close_upvalues that closes a cell without reading the slot it refers to
RECURSIVE close_upvalues_stale(_, _)
close_upvalues_stale(m, last) ==
    IF m.open_upvalues = <<>> THEN Ok(m)
    ELSE LET front == Head(m.open_upvalues)
             stack_index == m.cells[front].index
         IN  IF stack_index < last THEN Ok(m)
             ELSE IF stack_index >= Len(m.stack) THEN Panic(m)
             ELSE close_upvalues_stale(
                    [m EXCEPT !.open_upvalues = Tail(@),
                              !.cells[front] = [kind |-> "Heap", index |-> 0,
                                                value |-> m.cells[front].value]],
                    last)

\* Machine::close_upvalues: close every open cell at or above slot `last`
RECURSIVE close_upvalues(_, _)
close_upvalues(m, last) ==
    IF m.open_upvalues = <<>> THEN Ok(m)
    ELSE LET front == Head(m.open_upvalues)
             stack_index == m.cells[front].index
         IN  IF stack_index < last THEN Ok(m)
             ELSE IF stack_index >= Len(m.stack) THEN Panic(m)
             ELSE close_upvalues(
                    [m EXCEPT !.open_upvalues = Tail(@),
                              !.cells[front] = [kind |-> "Heap", index |-> 0,
                                                value |-> m.stack[stack_index + 1]]],
                    last)

\* Machine::op_return
op_return(m) ==
    Bind(stack_pop(m), LAMBDA m1, result :
        LET popped == Last(m1.frames)
            m2 == [m1 EXCEPT !.frames = Front(@)]
        IN  IF m2.frames = <<>>
            THEN Bind(stack_pop(m2), LAMBDA m3, v : Halt(m3))
            ELSE Bind(close_upvalues(m2, popped.frame_start), LAMBDA m3, v :
                    stack_push([m3 EXCEPT !.stack = Truncate(@, popped.frame_start)],
                               result)))

\* op_jump that measures the distance from the first byte of the operand
op_jump_from_operand(m, first, second) ==
    Ok(ip_inc(m, bytes_to_word(first, second) - 2))

\* Machine::op_loop / op_jump / op_jump_if_false
op_loop(m, first, second) ==
    IF frame(m).ip < bytes_to_word(first, second) THEN Panic(m)
    ELSE Ok(ip_dec(m, bytes_to_word(first, second)))
op_jump(m, first, second) == Ok(ip_inc(m, bytes_to_word(first, second)))
op_jump_if_false(m, first, second) ==
    Bind(stack_peek(m), LAMBDA m1, condition :
        IF ~as_bool(condition) THEN Ok(ip_inc(m1, bytes_to_word(first, second)))
        ELSE Ok(m1))

\* Machine::op_not
op_not(m) ==
    Bind(stack_pop(m), LAMBDA m1, value : stack_push(m1, Bool(~as_bool(value))))

\* Machine::op_negate
op_negate(m) ==
    Bind(stack_pop(m), LAMBDA m1, value :
        IF value.t # "Number" THEN Err(m1, runtime_error(m1, "Operand must be a number"))
        ELSE stack_push(m1, Number(0 - value.n)))

\* Machine::op_binary
op_binary(m, operation) ==
    Bind(stack_pop(m), LAMBDA m1, b :
        Bind(stack_pop(m1), LAMBDA m2, a :
            LET r == value_operation(m2, operation, a, b)
            IN  IF r.ok THEN Ok([m2 EXCEPT !.stack = Append(@, r.val)])
                ELSE IF r.err = "TypeMismatch"
                THEN Err(m2, runtime_error(m2, "Invalid/incompatible operands type"))
                ELSE Err(m2, runtime_error(m2, "Division by zeros"))))

\* unchecked_call whose frame starts at the first argument
unchecked_call_args(m, closure, arg_count) ==
    [m EXCEPT !.frames = Append(@, [closure |-> closure, ip |-> 0,
                                    frame_start |-> Len(m.stack) - arg_count])]

\* Machine::unchecked_call
unchecked_call(m, closure, arg_count) ==
    [m EXCEPT !.frames = Append(@, [closure |-> closure, ip |-> 0,
                                    frame_start |-> Len(m.stack) - arg_count - 1])]

\* call_closure that lets the frame stack grow one frame beyond FRAMES_MAX
call_closure_deeper(m, callee, arg_count) ==
    LET arity == m.closures[callee].func.arity
    IN  IF arg_count # arity
        THEN Err(m, runtime_error(m, "Expected " \o ToString(arity)
                                     \o " arguments but got " \o ToString(arg_count)))
        ELSE IF Len(m.frames) = FRAMES_MAX + 1
        THEN Err(m, runtime_error(m, "Stack overflow"))
        ELSE Ok(unchecked_call(m, callee, arg_count))

\* Machine::call_closure
call_closure(m, callee, arg_count) ==
    LET arity == m.closures[callee].func.arity
    IN  IF arg_count # arity
        THEN Err(m, runtime_error(m, "Expected " \o ToString(arity)
                                     \o " arguments but got " \o ToString(arg_count)))
        ELSE IF Len(m.frames) = FRAMES_MAX
        THEN Err(m, runtime_error(m, "Stack overflow"))
        ELSE Ok(unchecked_call(m, callee, arg_count))

\* native_write / native_writeln (backend/native.rs): what stdout receives
native_call(m, name, args) ==
    [m EXCEPT !.console =
        @ \o [ k \in 1..Len(args) |-> value_display(m, args[k]) ]
          \o (IF name = "writeln" THEN << "\n" >> ELSE <<>>)]

\* Machine::call_native: the arguments are cut off, the callee stays
call_native(m, callee, arg_count) ==
    LET len == Len(m.stack)
        m1 == native_call(m, callee, SubSeq(m.stack, len - arg_count + 1, len))
    IN  stack_push([m1 EXCEPT !.stack = Truncate(@, len - arg_count)], Nil)

\* Machine::instantiate_class: a new instance replaces the callee
instantiate_class(m, callee, arg_count) ==
    Ok([m EXCEPT !.instances = Append(@, [class |-> callee, fields |-> EmptyMap]),
                 !.stack[Len(m.stack) - arg_count] = InstanceVal(Len(m.instances) + 1)])

\* Machine::call_value
call_value(m, value, arg_count) ==
    CASE value.t = "Closure" -> call_closure(m, value.id, arg_count)
      [] value.t = "NativeFun" -> call_native(m, value.id, arg_count)
      [] value.t = "Class" -> instantiate_class(m, value.id, arg_count)
      [] OTHER -> Err(m, runtime_error(m, "Can only call functions and classes"))

\* Machine::op_call
op_call(m, arg_count) ==
    Bind(stack_peek_at(m, arg_count), LAMBDA m1, value :
        call_value(m1, value, arg_count))

\* Machine::define_global
define_global(m, index) ==
    Bind(read_const_string(m, index), LAMBDA m1, name :
        Bind(stack_pop(m1), LAMBDA m2, value :
            Ok([m2 EXCEPT !.globals = (name :> value) @@ @])))

\* Machine::get_global
get_global(m, index) ==
    Bind(read_const_string(m, index), LAMBDA m1, name :
        IF name \notin DOMAIN m1.globals
        THEN Err(m1, runtime_error(m1, "Undefined variable " \o name))
        ELSE stack_push(m1, m1.globals[name]))

\* set_global that stores the value whether or not the name is defined
set_global_insert(m, index) ==
    Bind(read_const_string(m, index), LAMBDA m1, name :
        Bind(stack_peek(m1), LAMBDA m2, value :
            Ok([m2 EXCEPT !.globals = (name :> value) @@ @])))

\* Machine::set_global
set_global(m, index) ==
    Bind(read_const_string(m, index), LAMBDA m1, name :
        IF name \notin DOMAIN m1.globals
        THEN Err(m1, runtime_error(m1, "Undefined variable " \o name))
        ELSE Bind(stack_peek(m1), LAMBDA m2, value :
                Ok([m2 EXCEPT !.globals = (name :> value) @@ @])))

\* Machine::relative_to_absolute_slot
relative_to_absolute_slot(m, relative_slot) == frame(m).frame_start + relative_slot

\* Machine::op_get_local
op_get_local(m, rel_slot) ==
    LET slot == relative_to_absolute_slot(m, rel_slot)
    IN  IF slot >= Len(m.stack)
        THEN Err(m, runtime_error(m, "Bug: failed to get local value"))
        ELSE stack_push(m, m.stack[slot + 1])

\* Machine::op_set_local
op_set_local(m, rel_slot) ==
    Bind(stack_peek(m), LAMBDA m1, value :
        LET slot == relative_to_absolute_slot(m1, rel_slot)
        IN  IF slot >= Len(m1.stack) THEN Panic(m1)
            ELSE Ok([m1 EXCEPT !.stack[slot + 1] = value]))

\* Machine::op_constant
op_constant(m, index) ==
    Bind(read_const(m, index), LAMBDA m1, value : stack_push(m1, value))

\* Machine::op_duplicate_top
op_duplicate_top(m) ==
    Bind(stack_peek(m), LAMBDA m1, value : stack_push(m1, value))

\* Machine::op_pop
op_pop(m) == Bind(stack_pop(m), LAMBDA m1, value : Ok(m1))

\* Machine::op_print: the service receives the value, kept as it displays
op_print(m) ==
    Bind(stack_pop(m), LAMBDA m1, value :
        Ok([m1 EXCEPT !.printed = Append(@, value_display(m1, value))]))

\* Machine::op_class
op_class(m, index) ==
    Bind(read_const_string(m, index), LAMBDA m1, name :
        IF Len(m1.stack) >= STACK_MAX_SIZE THEN stack_push(m1, Nil)
        ELSE stack_push([m1 EXCEPT !.classes = Append(@, [name |-> name,
                                                          methods |-> EmptyMap])],
                        ClassVal(Len(m1.classes) + 1)))

\* Machine::define_method
define_method(m, name) ==
    Bind(stack_peek(m), LAMBDA m1, method_value :
        Bind(stack_peek_at(m1, 1), LAMBDA m2, class :
            IF class.t # "Class" THEN Err(m2, with_str("Bug: method on non-class object"))
            ELSE stack_pop([m2 EXCEPT !.classes[class.id].methods =
                                            (name :> method_value) @@ @])))

\* Machine::op_method
op_method(m, index) ==
    Bind(read_const_string(m, index), LAMBDA m1, name : define_method(m1, name))

\* Machine::bind_method
bind_method(m, class, name) ==
    IF name \notin DOMAIN m.classes[class].methods
    THEN Err(m, with_str("Undefined property '" \o name \o "'"))
    ELSE LET closure == m.classes[class].methods[name]
         IN  IF closure.t # "Closure"
             THEN Err(m, with_str("Bug: expected closure in bind_method"))
             ELSE Bind(stack_peek(m), LAMBDA m1, receiver :
                    Bind(stack_pop([m1 EXCEPT !.bounds =
                                        Append(@, [receiver |-> receiver,
                                                   method |-> closure.id])]),
                         LAMBDA m2, v : stack_push(m2, BoundVal(Len(m2.bounds)))))

\* get_class_property that looks the name up among the methods first
get_class_property_method_first(m, index) ==
    Bind(stack_peek(m), LAMBDA m1, instance :
        IF instance.t # "Instance" THEN Err(m1, with_str("Only instances have fields"))
        ELSE Bind(read_const_string(m1, index), LAMBDA m2, name :
                IF name \in DOMAIN m2.classes[m2.instances[instance.id].class].methods
                   \/ name \notin DOMAIN m2.instances[instance.id].fields
                THEN bind_method(m2, m2.instances[instance.id].class, name)
                ELSE Bind(stack_pop(m2), LAMBDA m3, v :
                        stack_push(m3, m3.instances[instance.id].fields[name]))))

\* Machine::get_class_property
get_class_property(m, index) ==
    Bind(stack_peek(m), LAMBDA m1, instance :
        IF instance.t # "Instance" THEN Err(m1, with_str("Only instances have fields"))
        ELSE Bind(read_const_string(m1, index), LAMBDA m2, name :
                IF name \in DOMAIN m2.instances[instance.id].fields
                THEN Bind(stack_pop(m2), LAMBDA m3, v :
                        stack_push(m3, m3.instances[instance.id].fields[name]))
                ELSE bind_method(m2, m2.instances[instance.id].class, name)))

\* Machine::set_class_property
set_class_property(m, index) ==
    Bind(stack_peek_at(m, 1), LAMBDA m1, instance :
        IF instance.t # "Instance" THEN Err(m1, with_str("Only instances have fields"))
        ELSE Bind(read_const_string(m1, index), LAMBDA m2, name :
                Bind(stack_pop(m2), LAMBDA m3, value :
                    Bind(stack_pop([m3 EXCEPT !.instances[instance.id].fields =
                                                    (name :> value) @@ @]),
                         LAMBDA m4, v : stack_push(m4, value)))))

\* Machine::capture_upvalue without its search for an open cell of the
\* slot: every capture creates a cell
capture_upvalue_fresh(m, index) ==
    OkVal([m EXCEPT !.cells = Append(@, [kind |-> "Stack",
                                         index |-> frame(m).frame_start + index,
                                         value |-> Nil]),
                    !.open_upvalues = << Len(m.cells) + 1 >> \o @],
          Len(m.cells) + 1)

\* Machine::capture_upvalue that puts every new cell at the back of the
\* open list
capture_upvalue_back(m, index) ==
    LET idx == frame(m).frame_start + index
        open == m.open_upvalues
        found == { k \in 1..Len(open) : m.cells[open[k]].index = idx }
    IN  IF found # {} THEN OkVal(m, open[CHOOSE k \in found : TRUE])
        ELSE OkVal([m EXCEPT !.cells = Append(@, [kind |-> "Stack", index |-> idx,
                                                  value |-> Nil]),
                             !.open_upvalues = Append(open, Len(m.cells) + 1)],
                   Len(m.cells) + 1)

\* Machine::capture_upvalue: the open cell of the slot, created if missing;
\* open_upvalues stays sorted by descending stack index
capture_upvalue(m, index) ==
    LET idx == frame(m).frame_start + index
        open == m.open_upvalues
        found == { k \in 1..Len(open) : m.cells[open[k]].index <= idx }
        pos == IF found = {} THEN Len(open) + 1
               ELSE CHOOSE k \in found : \A j \in found : k <= j
        id == Len(m.cells) + 1
    IN  IF found # {} /\ m.cells[open[pos]].index = idx THEN OkVal(m, open[pos])
        ELSE OkVal([m EXCEPT !.cells = Append(@, [kind |-> "Stack", index |-> idx,
                                                  value |-> Nil]),
                             !.open_upvalues = SubSeq(open, 1, pos - 1) \o << id >>
                                               \o SubSeq(open, pos, Len(open))],
                   id)

\* the loop of Machine::op_closure: one upvalue descriptor per iteration
RECURSIVE closure_upvalues(_, _, _)
closure_upvalues(m, count, acc) ==
    IF Len(acc) = count THEN OkVal(m, acc)
    ELSE LET data == upvalue_fetch(frame_chunk(m).code, frame(m).ip)
             m1 == ip_inc(m, 2)
         IN  IF ~IsSome(data) THEN Err(m, with_str("Bug: missing upvalue"))
             ELSE IF Unwrap(data).is_local
             THEN Bind(capture_upvalue(m1, Unwrap(data).index), LAMBDA m2, upvalue :
                    closure_upvalues(m2, count, Append(acc, upvalue)))
             ELSE IF Unwrap(data).index >= Len(m1.closures[frame(m1).closure].upvalues)
             THEN Panic(m1)
             ELSE closure_upvalues(m1, count,
                    Append(acc, m1.closures[frame(m1).closure].upvalues[Unwrap(data).index + 1]))

\* Machine::op_closure
op_closure(m, index) ==
    Bind(read_const(m, index), LAMBDA m1, val :
        IF val.t # "Fun" THEN Err(m1, with_str("Bug: closure refers to non-function constant"))
        ELSE Bind(closure_upvalues(m1, val.func.upvalue_count, <<>>), LAMBDA m2, upvalues :
                IF Len(m2.stack) >= STACK_MAX_SIZE THEN stack_push(m2, Nil)
                ELSE stack_push([m2 EXCEPT !.closures = Append(@, [func |-> val.func,
                                                                   upvalues |-> upvalues])],
                                ClosureVal(Len(m2.closures) + 1))))

\* Machine::op_close_upvalue
op_close_upvalue(m) ==
    IF m.stack = <<>> THEN Panic(m)
    ELSE Bind(close_upvalues(m, Len(m.stack) - 1), LAMBDA m1, v : op_pop(m1))

\* Machine::op_get_upvalue
op_get_upvalue(m, index) ==
    LET upvalue == m.cells[m.closures[frame(m).closure].upvalues[index + 1]]
    IN  IF upvalue.kind = "Stack"
        THEN Bind(stack_get(m, upvalue.index), LAMBDA m1, value : stack_push(m1, value))
        ELSE stack_push(m, upvalue.value)

\* Machine::op_set_upvalue
op_set_upvalue(m, index) ==
    LET id == m.closures[frame(m).closure].upvalues[index + 1]
        upvalue == m.cells[id]
    IN  Bind(stack_peek(m), LAMBDA m1, value :
            IF upvalue.kind = "Stack"
            THEN IF upvalue.index >= Len(m1.stack) THEN Panic(m1)
                 ELSE Ok([m1 EXCEPT !.stack[upvalue.index + 1] = value])
            ELSE Ok([m1 EXCEPT !.cells[id].value = value]))

\* Machine::with: the natives as globals, the script closure in slot 0 and
\* its frame
machine_with(func) ==
    unchecked_call(
        [frames |-> <<>>,
         stack |-> << ClosureVal(1) >>,
         globals |-> ("write" :> NativeFun("write")) @@ ("writeln" :> NativeFun("writeln")),
         open_upvalues |-> <<>>,
         closures |-> << [func |-> func, upvalues |-> <<>>] >>,
         cells |-> <<>>, classes |-> <<>>, instances |-> <<>>, bounds |-> <<>>,
         printed |-> <<>>, console |-> <<>>],
        1, 0)

(***************************************************************************)
(* The catalogue of programs: each is its source text, line by line, as    *)
(* the lexemes the scanner cuts it into.  The number literal K of a        *)
(* program is the input k.                                                 *)
(***************************************************************************)
\* { var a = K ; { var b = a + 1 ; print b ; } var c = a * 2 ; print c - 
program_locals(k) ==
    <<
       << "{", "var", "a", "=", ToString(k), ";" >>,
       << "{", "var", "b", "=", "a", "+", "1", ";", "print", "b", ";", "}" >>,
       << "var", "c", "=", "a", "*", "2", ";", "print", "c", "-", "1", ";",
          "}" >>
    >>

\* { switch ( K ) { case 2 : print "a" ; } var a = 5 ; print a ; } switch
program_switch(k) ==
    <<
       << "{", "switch", "(", ToString(k), ")", "{", "case", "2", ":",
          "print", "\"a\"", ";", "}" >>,
       << "var", "a", "=", "5", ";", "print", "a", ";", "}" >>,
       << "switch", "(", ToString(k), ")", "{", "case", "1", ":", "print",
          "\"x\"", ";", "default", ":", "print", "\"y\"", ";", "}" >>
    >>

\* var g ; var s ; fun make ( ) { var x = K ; fun get ( ) { return x ; } 
program_closures(k) ==
    <<
       << "var", "g", ";", "var", "s", ";" >>,
       << "fun", "make", "(", ")", "{", "var", "x", "=", ToString(k), ";",
          "fun", "get", "(", ")", "{", "return", "x", ";", "}", "fun", "set",
          "(", "v", ")", "{", "x", "=", "v", ";", "}" >>,
       << "g", "=", "get", ";", "s", "=", "set", ";", "s", "(", "7", ")",
          ";", "print", "g", "(", ")", ";", "}" >>,
       << "make", "(", ")", ";", "s", "(", "9", ")", ";", "print", "g", "(",
          ")", ";" >>
    >>

\* var g ; { var y = K ; fun h ( ) { y = y + 1 ; return y ; } g = h ; pri
program_block_closure(k) ==
    <<
       << "var", "g", ";" >>,
       << "{", "var", "y", "=", ToString(k), ";", "fun", "h", "(", ")", "{",
          "y", "=", "y", "+", "1", ";", "return", "y", ";", "}", "g", "=",
          "h", ";", "print", "h", "(", ")", ";", "}" >>,
       << "print", "g", "(", ")", ";" >>
    >>

\* for ( var i = 0 ; i < K ; i = i + 1 ) { if ( i == 2 ) break ; print i 
program_for_loop(k) ==
    <<
       << "for", "(", "var", "i", "=", "0", ";", "i", "<", ToString(k), ";",
          "i", "=", "i", "+", "1", ")", "{", "if", "(", "i", "==", "2", ")",
          "break", ";", "print", "i", ";", "}" >>,
       << "print", "\"x\"", ";" >>
    >>

\* var n = 0 ; while ( true ) { var t = n ; n = t + 1 ; if ( n > K ) brea
program_while_loop(k) ==
    <<
       << "var", "n", "=", "0", ";" >>,
       << "while", "(", "true", ")", "{", "var", "t", "=", "n", ";", "n",
          "=", "t", "+", "1", ";", "if", "(", "n", ">", ToString(k), ")",
          "break", ";", "}" >>,
       << "print", "n", ";" >>
    >>

\* var n = 0 ; while ( n < K ) { n = n + 1 ; if ( n == 2 ) continue ; pri
program_continue_loop(k) ==
    <<
       << "var", "n", "=", "0", ";" >>,
       << "while", "(", "n", "<", ToString(k), ")", "{", "n", "=", "n", "+",
          "1", ";", "if", "(", "n", "==", "2", ")", "continue", ";", "print",
          "n", ";", "}" >>
    >>

\* fun a ( ) { return b ( ) ; } fun b ( ) { return 12 / K ; } print a ( )
program_errors(k) ==
    <<
       << "fun", "a", "(", ")", "{", "return", "b", "(", ")", ";", "}" >>,
       << "fun", "b", "(", ")", "{" >>,
       << "return", "12", "/", ToString(k), ";", "}" >>,
       << "print", "a", "(", ")", ";" >>,
       << "print", "\"x\"", ";" >>
    >>

\* fun f ( x ) { return x ; } var v = K ; if ( K == 0 ) f ( ) ; if ( K ==
program_calls(k) ==
    <<
       << "fun", "f", "(", "x", ")", "{", "return", "x", ";", "}" >>,
       << "var", "v", "=", ToString(k), ";" >>,
       << "if", "(", ToString(k), "==", "0", ")", "f", "(", ")", ";" >>,
       << "if", "(", ToString(k), "==", "1", ")", "f", "(", "1", ",", "2",
          ")", ";" >>,
       << "if", "(", ToString(k), "==", "2", ")", "v", "(", ")", ";" >>,
       << "print", "f", "(", ToString(k), ")", ";" >>
    >>

\* class B { m ( ) { return 1 ; } x ( ) { return 2 ; } } var o = B ( ) ; 
program_classes(k) ==
    <<
       << "class", "B", "{", "m", "(", ")", "{", "return", "1", ";", "}",
          "x", "(", ")", "{", "return", "2", ";", "}", "}" >>,
       << "var", "o", "=", "B", "(", ")", ";" >>,
       << "o", ".", "m", "=", ToString(k), ";", "print", "o", ".", "m", ";",
          "print", "o", ".", "x", ";" >>,
       << "if", "(", ToString(k), "==", "1", ")", "print", "o", ".", "y",
          ";" >>,
       << "var", "bm", "=", "o", ".", "x", ";", "print", "bm", ";" >>,
       << "if", "(", ToString(k), "==", "2", ")", "{", "o", ".", "x", "=",
          "7", ";", "print", "o", ".", "x", ";", "}" >>,
       << "if", "(", ToString(k), "==", "3", ")", "print", "v", ".", "x",
          ";" >>,
       << "print", "bm", "(", ")", ";" >>
    >>

\* class A { init ( ) { print "init" ; } } class C { } var a = A ( ) ; pr
program_class_init(k) ==
    <<
       << "class", "A", "{", "init", "(", ")", "{", "print", "\"init\"", ";",
          "}", "}" >>,
       << "class", "C", "{", "}" >>,
       << "var", "a", "=", "A", "(", ")", ";", "print", "a", ";" >>,
       << "if", "(", ToString(k), "==", "1", ")", "print", "A", "(", "1",
          ",", "2", ")", ";" >>,
       << "if", "(", ToString(k), "==", "2", ")", "print", "C", "(", "1",
          ",", "2", ",", "3", ")", ";" >>,
       << "if", "(", ToString(k), "==", "3", ")", "print", "\"a\"", ".", "x",
          ";" >>,
       << "print", "C", ";" >>
    >>

\* { writeln ( "a" , K ) ; var a = 5 ; print a ; }
program_natives(k) ==
    <<
       << "{", "writeln", "(", "\"a\"", ",", ToString(k), ")", ";", "var",
          "a", "=", "5", ";", "print", "a", ";", "}" >>
    >>

\* print - K ; print ! ( K > 1 ) or false ; print "a" + K ; print nil == 
program_operators(k) ==
    <<
       << "print", "-", ToString(k), ";", "print", "!", "(", ToString(k),
          ">", "1", ")", "or", "false", ";", "print", "\"a\"", "+",
          ToString(k), ";", "print", "nil", "==", "false", ";" >>,
       << "print", ToString(k), "<=", "2", "and", ToString(k), ">=", "1",
          ";", "print", ToString(k), "!=", "1", ";", "print", ToString(k),
          "-", "1", "<", "1", ";" >>,
       << "if", "(", ToString(k), "==", "3", ")", "print", "-", "\"a\"", ";",
          "else", "print", "true", ";" >>
    >>

\* var 1 = K ; print @ 1 ; return ;
program_compile_error(k) ==
    <<
       << "var", "1", "=", ToString(k), ";" >>,
       << "print", "@", "1", ";" >>,
       << "return", ";" >>
    >>

\* fun r ( n ) { r ( n + K ) ; } r ( 0 ) ;
program_recursion(k) ==
    <<
       << "fun", "r", "(", "n", ")", "{", "r", "(", "n", "+", ToString(k),
          ")", ";", "}" >>,
       << "r", "(", "0", ")", ";" >>
    >>

\* var a = K ; var a = a + 1 ; print a ; if ( K == 1 ) b = 2 ; a = a + 1 
program_globals(k) ==
    <<
       << "var", "a", "=", ToString(k), ";", "var", "a", "=", "a", "+", "1",
          ";", "print", "a", ";" >>,
       << "if", "(", ToString(k), "==", "1", ")", "b", "=", "2", ";" >>,
       << "a", "=", "a", "+", "1", ";", "print", "a", ";" >>
    >>

\* for ( var i = 0 ; i < K ; i = i + 1 ) { if ( i == 1 ) continue ; print
program_for_continue(k) ==
    <<
       << "for", "(", "var", "i", "=", "0", ";", "i", "<", ToString(k), ";",
          "i", "=", "i", "+", "1", ")", "{", "if", "(", "i", "==", "1", ")",
          "continue", ";", "print", "i", ";", "}" >>,
       << "print", "\"x\"", ";" >>
    >>

\* var i = 0 ; while ( i < K ) { i = i + 1 ; while ( true ) { break ; pri
program_nested_break(k) ==
    <<
       << "var", "i", "=", "0", ";" >>,
       << "while", "(", "i", "<", ToString(k), ")", "{", "i", "=", "i", "+",
          "1", ";", "while", "(", "true", ")", "{", "break", ";", "print",
          "\"a\"", ";", "}", "print", "i", ";", "}" >>,
       << "print", "\"x\"", ";" >>
    >>

\* fun f ( ) { print "init" ; return K ; } switch ( f ( ) ) { case 3 : pr
program_switch_default(k) ==
    <<
       << "fun", "f", "(", ")", "{", "print", "\"init\"", ";", "return",
          ToString(k), ";", "}" >>,
       << "switch", "(", "f", "(", ")", ")", "{", "case", "3", ":", "print",
          "\"y\"", ";", "default", ":", "print", "\"outside\"", ";", "case",
          "1", ":", "print", "\"a\"", ";" >>,
       << "print", "\"b\"", ";", "case", "1", ":", "print", "\"updated\"",
          ";", "}" >>,
       << "print", "\"x\"", ";" >>
    >>

\* switch ( K ) { default : print "a" ; default : print "b" ; } print "x"
program_switch_defaults(k) ==
    <<
       << "switch", "(", ToString(k), ")", "{", "default", ":", "print",
          "\"a\"", ";", "default", ":", "print", "\"b\"", ";", "}" >>,
       << "print", "\"x\"", ";" >>
    >>

\* fun outer ( ) { var x = K ; fun mid ( ) { fun inner ( ) { x = x + 1 ; 
program_nested_closure(k) ==
    <<
       << "fun", "outer", "(", ")", "{", "var", "x", "=", ToString(k), ";",
          "fun", "mid", "(", ")", "{", "fun", "inner", "(", ")", "{", "x",
          "=", "x", "+", "1", ";", "return", "x", ";", "}", "return",
          "inner", ";", "}" >>,
       << "return", "mid", ";", "}" >>,
       << "var", "f", "=", "outer", "(", ")", "(", ")", ";", "print", "f",
          "(", ")", ";", "print", "f", "(", ")", ";" >>
    >>

\* var 1 @ K ; var ; print 1 ;
program_sync_error(k) ==
    <<
       << "var", "1", "@", ToString(k), ";" >>,
       << "var", ";" >>,
       << "print", "1", ";" >>
    >>

\* class A { m ( ) { return this ; } n ( ) { fun g ( ) { return this ; } 
program_this_method(k) ==
    <<
       << "class", "A", "{", "m", "(", ")", "{", "return", "this", ";", "}",
          "n", "(", ")", "{", "fun", "g", "(", ")", "{", "return", "this",
          ";", "}", "return", "g", ";", "}", "}" >>,
       << "print", ToString(k), ";" >>
    >>

\* class A { init ( ) { return K ; } } var a = A ( ) ; print a ;
program_init_return(k) ==
    <<
       << "class", "A", "{", "init", "(", ")", "{", "return", ToString(k),
          ";", "}", "}" >>,
       << "var", "a", "=", "A", "(", ")", ";", "print", "a", ";" >>
    >>

\* class A { m ( ) { return K ; } } class B : A { t ( ) { return super . 
program_inherit(k) ==
    <<
       << "class", "A", "{", "m", "(", ")", "{", "return", ToString(k), ";",
          "}", "}" >>,
       << "class", "B", ":", "A", "{", "t", "(", ")", "{", "return", "super",
          ".", "m", ";", "}", "}" >>,
       << "print", "B", ";" >>
    >>

\* print K ; break ; continue ;
program_outside_loop(k) ==
    <<
       << "print", ToString(k), ";" >>,
       << "break", ";" >>,
       << "continue", ";" >>
    >>

\* fun b ( ) { return K / nil ; } fun a ( ) { return b ( ) ; } a ( ) ;
program_trace_lines(k) ==
    <<
       << "fun", "b", "(", ")", "{", "return", ToString(k), "/", "nil" >>,
       << ";", "}" >>,
       << "fun", "a", "(", ")", "{", "return", "b", "(", ")", ";", "}" >>,
       << "a", "(", ")", ";" >>
    >>

\* var n = 0 ; while ( n < K ) { n = n + 1 ; var t = n ; if ( t == 1 ) co
program_continue_local(k) ==
    <<
       << "var", "n", "=", "0", ";" >>,
       << "while", "(", "n", "<", ToString(k), ")", "{", "n", "=", "n", "+",
          "1", ";", "var", "t", "=", "n", ";", "if", "(", "t", "==", "1",
          ")", "continue", ";", "print", "t", ";", "}" >>,
       << "print", "\"x\"", ";" >>
    >>

\* while ( K > 5 ) { fun f ( ) { break ; } } print "x" ;
program_loop_function(k) ==
    <<
       << "while", "(", ToString(k), ">", "5", ")", "{", "fun", "f", "(",
          ")", "{", "break", ";", "}", "}" >>,
       << "print", "\"x\"", ";" >>
    >>

\* { writeln ( K ) ; var a = 5 ; fun g ( ) { return a ; } print g ( ) ; }
program_stray_capture(k) ==
    <<
       << "{", "writeln", "(", ToString(k), ")", ";", "var", "a", "=", "5",
          ";", "fun", "g", "(", ")", "{", "return", "a", ";", "}", "print",
          "g", "(", ")", ";", "}" >>,
       << "print", "\"x\"", ";" >>
    >>

\* { var a = K ; fun g ( ) { return a ; } print g ( ) ; print - "a" ; }
program_open_failure(k) ==
    <<
       << "{", "var", "a", "=", ToString(k), ";", "fun", "g", "(", ")", "{",
          "return", "a", ";", "}", "print", "g", "(", ")", ";", "print", "-",
          "\"a\"", ";", "}" >>
    >>

\* while ( true ) { var u = 0 ; var t = K ; { fun g ( ) { return t ; } pr
program_break_capture(k) ==
    <<
       << "while", "(", "true", ")", "{", "var", "u", "=", "0", ";", "var",
          "t", "=", ToString(k), ";", "{", "fun", "g", "(", ")", "{",
          "return", "t", ";", "}", "print", "g", "(", ")", ";", "}", "break",
          ";", "}" >>,
       << "print", "\"x\"", ";" >>
    >>

\* var g1 ; var g2 ; fun main ( ) { for ( var a = 1 ; a <= K ; a = a + 1 
program_loop_closures(k) ==
    <<
       << "var", "g1", ";", "var", "g2", ";" >>,
       << "fun", "main", "(", ")", "{", "for", "(", "var", "a", "=", "1",
          ";", "a", "<=", ToString(k), ";", "a", "=", "a", "+", "1", ")",
          "{", "fun", "c", "(", ")", "{", "print", "a", ";", "}" >>,
       << "if", "(", "g1", "==", "nil", ")", "{", "g1", "=", "c", ";", "}",
          "else", "{", "g2", "=", "c", ";", "}", "}", "}" >>,
       << "main", "(", ")", ";" >>,
       << "if", "(", ToString(k), ">", "0", ")", "g1", "(", ")", ";", "if",
          "(", ToString(k), ">", "1", ")", "g2", "(", ")", ";" >>
    >>

\* nil ; while ( K < 9 ) { fun f ( a ) { 1 ; print a ; continue ; } f ( K
program_continue_function(k) ==
    <<
       << "nil", ";", "while", "(", ToString(k), "<", "9", ")", "{", "fun",
          "f", "(", "a", ")", "{", "1", ";", "print", "a", ";", "continue",
          ";", "}", "f", "(", ToString(k), ")", ";", "}" >>
    >>

ProgramNames ==
    <<
       "locals",
       "switch",
       "closures",
       "block_closure",
       "for_loop",
       "while_loop",
       "continue_loop",
       "errors",
       "calls",
       "classes",
       "class_init",
       "natives",
       "operators",
       "compile_error",
       "recursion",
       "globals",
       "for_continue",
       "nested_break",
       "switch_default",
       "switch_defaults",
       "nested_closure",
       "sync_error",
       "this_method",
       "init_return",
       "inherit",
       "outside_loop",
       "trace_lines",
       "continue_local",
       "loop_function",
       "stray_capture",
       "open_failure",
       "break_capture",
       "loop_closures",
       "continue_function"
    >>

\* the source of program `name` on input k
Program(name, k) ==
    CASE name = "locals" -> program_locals(k)
      [] name = "switch" -> program_switch(k)
      [] name = "closures" -> program_closures(k)
      [] name = "block_closure" -> program_block_closure(k)
      [] name = "for_loop" -> program_for_loop(k)
      [] name = "while_loop" -> program_while_loop(k)
      [] name = "continue_loop" -> program_continue_loop(k)
      [] name = "errors" -> program_errors(k)
      [] name = "calls" -> program_calls(k)
      [] name = "classes" -> program_classes(k)
      [] name = "class_init" -> program_class_init(k)
      [] name = "natives" -> program_natives(k)
      [] name = "operators" -> program_operators(k)
      [] name = "compile_error" -> program_compile_error(k)
      [] name = "recursion" -> program_recursion(k)
      [] name = "globals" -> program_globals(k)
      [] name = "for_continue" -> program_for_continue(k)
      [] name = "nested_break" -> program_nested_break(k)
      [] name = "switch_default" -> program_switch_default(k)
      [] name = "switch_defaults" -> program_switch_defaults(k)
      [] name = "nested_closure" -> program_nested_closure(k)
      [] name = "sync_error" -> program_sync_error(k)
      [] name = "this_method" -> program_this_method(k)
      [] name = "init_return" -> program_init_return(k)
      [] name = "inherit" -> program_inherit(k)
      [] name = "outside_loop" -> program_outside_loop(k)
      [] name = "trace_lines" -> program_trace_lines(k)
      [] name = "continue_local" -> program_continue_local(k)
      [] name = "loop_function" -> program_loop_function(k)
      [] name = "stray_capture" -> program_stray_capture(k)
      [] name = "open_failure" -> program_open_failure(k)
      [] name = "break_capture" -> program_break_capture(k)
      [] name = "loop_closures" -> program_loop_closures(k)
      [] name = "continue_function" -> program_continue_function(k)

(***************************************************************************)
(* The state machine: interpret (lib.rs) compiles the program, constructs  *)
(* the machine and runs it, one instruction per step.                      *)
(***************************************************************************)
VARIABLES
    program,        \* the name of the program being interpreted
    input,          \* its input k
    status,         \* "source", "compile_failed", "compile_panic", "running",
                    \* "done", "failed", "reported", "panicked"
    frames,         \* Machine::frames: [closure, ip, frame_start]
    stack,          \* Machine::stack
    globals,        \* Machine::globals
    open_upvalues,  \* Machine::open_upvalues: cell ids, descending stack index
    closures,       \* the Closure objects: [func, upvalues]
    cells,          \* the Upvalue cells: [kind, index, value]
    classes,        \* the Class objects: [name, methods]
    instances,      \* the Instance objects: [class, fields]
    bounds,         \* the BoundMethod objects: [receiver, method]
    printed,        \* what BackendService::print_value has received
    console,        \* what the natives have written to stdout
    vm_error,          \* what BackendService::set_error has received (Option)
    stack_trace,    \* what BackendService::set_stack_trace has received (Option)
    compile_errors, \* what InterpreterService::set_compile_errors has received
    last,           \* ghost: the instruction executed by the last step
    unit            \* the compiler, parser or machine a single function of the
                    \* program is applied to (None while interpret runs)

\* the variables of interpret
interpreter == << program, input, status, frames, stack, globals, open_upvalues,
                  closures, cells, classes, instances, bounds, printed, console,
                  vm_error, stack_trace, compile_errors, last >>

vars == << interpreter, unit >>

\* the machine of the current state
M ==
    [frames |-> frames, stack |-> stack, globals |-> globals,
     open_upvalues |-> open_upvalues, closures |-> closures, cells |-> cells,
     classes |-> classes, instances |-> instances, bounds |-> bounds,
     printed |-> printed, console |-> console]

\* the machine of the next state is m
Becomes(m) ==
    /\ frames' = m.frames
    /\ stack' = m.stack
    /\ globals' = m.globals
    /\ open_upvalues' = m.open_upvalues
    /\ closures' = m.closures
    /\ cells' = m.cells
    /\ classes' = m.classes
    /\ instances' = m.instances
    /\ bounds' = m.bounds
    /\ printed' = m.printed
    /\ console' = m.console

\* before Machine::with there is no machine
NoMachine ==
    [frames |-> <<>>, stack |-> <<>>, globals |-> EmptyMap, open_upvalues |-> <<>>,
     closures |-> <<>>, cells |-> <<>>, classes |-> <<>>, instances |-> <<>>,
     bounds |-> <<>>, printed |-> <<>>, console |-> <<>>]

NoInstruction == I0("none")

Init ==
    /\ program \in { ProgramNames[n] : n \in 1..Len(ProgramNames) }
    /\ input \in 0..MaxInput
    /\ status = "source"
    /\ frames = <<>> /\ stack = <<>> /\ globals = EmptyMap /\ open_upvalues = <<>>
    /\ closures = <<>> /\ cells = <<>> /\ classes = <<>> /\ instances = <<>>
    /\ bounds = <<>> /\ printed = <<>> /\ console = <<>>
    /\ vm_error = None /\ stack_trace = None /\ compile_errors = <<>>
    /\ last = NoInstruction
    /\ unit = None

\* interpret, up to the construction of the machine: compile, then
\* Machine::with or InterpreterService::set_compile_errors
InterpretCompile ==
    /\ status = "source"
    /\ LET result == compile(TokensOf(Program(program, input)))
       IN  /\ status' = CASE result.kind = "Ok" -> "running"
                          [] result.kind = "Err" -> "compile_failed"
                          [] OTHER -> "compile_panic"
           /\ Becomes(IF result.kind = "Ok" THEN machine_with(result.func) ELSE NoMachine)
           /\ compile_errors' = result.errors
    /\ UNCHANGED << program, input, vm_error, stack_trace, last, unit >>

\* Machine::fetch_instruction on the current frame
Fetched == fetch(frame_chunk(M).code, frame(M).ip)

\* the machine after the fetch: ip is past the instruction
AfterFetch == [M EXCEPT !.frames[Len(frames)].ip = Fetched.offset]

\* the dispatch loop of Machine::perform is about to execute `op`
Dispatch(op) ==
    /\ status = "running"
    /\ Fetched.ok
    /\ Fetched.instr.op = op

\* Machine::run that reports the error but keeps the stacks as they were
Complete_uncleared(r) ==
    /\ last' = Fetched.instr
    /\ UNCHANGED << program, input, compile_errors, unit >>
    /\ CASE r.kind = "Ok" ->
                Becomes(r.m) /\ status' = "running" /\ UNCHANGED << vm_error, stack_trace >>
         [] r.kind = "Halt" ->
                Becomes(r.m) /\ status' = "done" /\ UNCHANGED << vm_error, stack_trace >>
         [] r.kind = "Err" ->
                /\ Becomes(r.m)
                /\ vm_error' = Some(r.err)
                /\ stack_trace' = Some(flush_track_trace(r.m))
                /\ status' = "failed"
         [] r.kind = "Panic" ->
                Becomes(M) /\ status' = "panicked" /\ UNCHANGED << vm_error, stack_trace >>

\* one iteration of Machine::perform with the handler's result r, and
\* Machine::run's handling of an error: the error and the stack trace go
\* to the service, the value stack and the frames are cleared
Complete(r) ==
    /\ last' = Fetched.instr
    /\ UNCHANGED << program, input, compile_errors, unit >>
    /\ CASE r.kind = "Ok" ->
                Becomes(r.m) /\ status' = "running" /\ UNCHANGED << vm_error, stack_trace >>
         [] r.kind = "Halt" ->
                Becomes(r.m) /\ status' = "done" /\ UNCHANGED << vm_error, stack_trace >>
         [] r.kind = "Err" ->
                /\ Becomes([r.m EXCEPT !.stack = <<>>, !.frames = <<>>])
                /\ vm_error' = Some(r.err)
                /\ stack_trace' = Some(flush_track_trace(r.m))
                /\ status' = "failed"
         [] r.kind = "Panic" ->
                Becomes(M) /\ status' = "panicked" /\ UNCHANGED << vm_error, stack_trace >>

\* Machine::perform when the fetch fails: the end of the chunk ends the
\* loop without an error, any other failure is a runtime error
FetchFailure ==
    /\ status = "running"
    /\ ~Fetched.ok
    /\ Complete(IF Fetched.err = "End of program" THEN Halt(AfterFetch)
                ELSE Err(AfterFetch, runtime_error(AfterFetch, Fetched.err)))

\* interpret after Machine::run has returned an error
InterpretReport ==
    /\ status = "failed"
    /\ status' = "reported"
    /\ printed' = Append(printed, "Completed with errors. See messages above")
    /\ UNCHANGED << program, input, frames, stack, globals, open_upvalues, closures,
                    cells, classes, instances, bounds, console, vm_error, stack_trace,
                    compile_errors, last, unit >>

\* the arms of Machine::perform's match, one per instruction
Constant == Dispatch("Constant") /\ Complete(op_constant(AfterFetch, Fetched.instr.a))
Equal == Dispatch("Equal") /\ Complete(op_binary(AfterFetch, "Equal"))
Greater == Dispatch("Greater") /\ Complete(op_binary(AfterFetch, "Greater"))
Less == Dispatch("Less") /\ Complete(op_binary(AfterFetch, "Less"))
PushNil == Dispatch("Nil") /\ Complete(stack_push(AfterFetch, Nil))
PushTrue == Dispatch("True") /\ Complete(stack_push(AfterFetch, Bool(TRUE)))
PushFalse == Dispatch("False") /\ Complete(stack_push(AfterFetch, Bool(FALSE)))
Add == Dispatch("Add") /\ Complete(op_binary(AfterFetch, "Add"))
Subtract == Dispatch("Subtract") /\ Complete(op_binary(AfterFetch, "Subtract"))
Multiply == Dispatch("Multiply") /\ Complete(op_binary(AfterFetch, "Multiply"))
Divide == Dispatch("Divide") /\ Complete(op_binary(AfterFetch, "Divide"))
Negate == Dispatch("Negate") /\ Complete(op_negate(AfterFetch))
Not == Dispatch("Not") /\ Complete(op_not(AfterFetch))
PrintValue == Dispatch("Print") /\ Complete(op_print(AfterFetch))
Return == Dispatch("Return") /\ Complete(op_return(AfterFetch))
Pop == Dispatch("Pop") /\ Complete(op_pop(AfterFetch))
DefineGlobal == Dispatch("DefineGlobal") /\ Complete(define_global(AfterFetch, Fetched.instr.a))
GetGlobal == Dispatch("GetGlobal") /\ Complete(get_global(AfterFetch, Fetched.instr.a))
SetGlobal == Dispatch("SetGlobal") /\ Complete(set_global(AfterFetch, Fetched.instr.a))
GetLocal == Dispatch("GetLocal") /\ Complete(op_get_local(AfterFetch, Fetched.instr.a))
SetLocal == Dispatch("SetLocal") /\ Complete(op_set_local(AfterFetch, Fetched.instr.a))
JumpIfFalse ==
    Dispatch("JumpIfFalse")
    /\ Complete(op_jump_if_false(AfterFetch, Fetched.instr.a, Fetched.instr.b))
Jump == Dispatch("Jump") /\ Complete(op_jump(AfterFetch, Fetched.instr.a, Fetched.instr.b))
Loop == Dispatch("Loop") /\ Complete(op_loop(AfterFetch, Fetched.instr.a, Fetched.instr.b))
Duplicate == Dispatch("Duplicate") /\ Complete(op_duplicate_top(AfterFetch))
Call == Dispatch("Call") /\ Complete(op_call(AfterFetch, Fetched.instr.a))
Closure == Dispatch("Closure") /\ Complete(op_closure(AfterFetch, Fetched.instr.a))
GetUpvalue == Dispatch("GetUpvalue") /\ Complete(op_get_upvalue(AfterFetch, Fetched.instr.a))
SetUpvalue == Dispatch("SetUpvalue") /\ Complete(op_set_upvalue(AfterFetch, Fetched.instr.a))
CloseUpvalue == Dispatch("CloseUpvalue") /\ Complete(op_close_upvalue(AfterFetch))
Class == Dispatch("Class") /\ Complete(op_class(AfterFetch, Fetched.instr.a))
GetProperty ==
    Dispatch("GetProperty") /\ Complete(get_class_property(AfterFetch, Fetched.instr.a))
SetProperty ==
    Dispatch("SetProperty") /\ Complete(set_class_property(AfterFetch, Fetched.instr.a))
Method == Dispatch("Method") /\ Complete(op_method(AfterFetch, Fetched.instr.a))

Next ==
    \/ InterpretCompile
    \/ InterpretReport
    \/ Constant \/ Equal \/ Greater \/ Less \/ PushNil \/ PushTrue \/ PushFalse
    \/ Add \/ Subtract \/ Multiply \/ Divide \/ Negate \/ Not \/ PrintValue
    \/ Return \/ Pop \/ DefineGlobal \/ GetGlobal \/ SetGlobal \/ GetLocal
    \/ SetLocal \/ JumpIfFalse \/ Jump \/ Loop \/ Duplicate \/ Call \/ Closure
    \/ GetUpvalue \/ SetUpvalue \/ CloseUpvalue \/ Class \/ GetProperty
    \/ SetProperty \/ Method

Spec == Init /\ [][Next]_vars

(***************************************************************************)
(* The claims                                                              *)
(***************************************************************************)
\* Machine::perform is about to execute instruction `op`
Executing(op) == Dispatch(op)

\* the number of locals the compiler had declared where a statement of the
\* current function starts at the current ip
DeclaredHere ==
    { frame_func(M).marks[k].n :
        k \in { j \in 1..Len(frame_func(M).marks) :
                    frame_func(M).marks[j].pos = frame(M).ip } }

\* C1: at every statement boundary of a running program the stack height
\* above frame_start equals the number of locals the compiler has declared
\* at that point, so that stack[frame_start + slot] is the local the compiler
\* held at index `slot`
C1_LocalSlotsAgree ==
    status = "running" =>
        \A n \in DeclaredHere : Len(stack) - frame(M).frame_start = n


\* C2: Return cuts the value stack back to the popped frame's frame_start;
\* below the outermost frame it then pushes the return value, so that the
\* callee and its arguments are replaced by that one value; in the outermost
\* frame nothing is pushed and the machine halts
C2_ReturnCutsStack ==
    [][Executing("Return") /\ status' # "failed" =>
            IF Len(frames) > 1
            THEN /\ status' = "running"
                 /\ Len(frames') = Len(frames) - 1
                 /\ stack' = Append(SubSeq(stack, 1, frame(M).frame_start), Last(stack))
            ELSE /\ status' = "done"
                 /\ Len(stack') = frame(M).frame_start]_vars

\* the cells that still refer to a stack slot
OpenCells == { c \in 1..Len(cells) : cells[c].kind = "Stack" }

\* the sequence s begins the sequence t
IsPrefix(s, t) == Len(s) <= Len(t) /\ s = SubSeq(t, 1, Len(s))

\* C3: closures that capture the same local hold the same cell: no stack
\* slot has two open cells, and what one closure writes the other reads,
\* while the local is on the stack (7) and after its slot is released (9)
C3_SharedCell ==
    /\ \A a, b \in OpenCells : cells[a].index = cells[b].index => a = b
    /\ program = "closures" => IsPrefix(printed, << "7", "9" >>)
    /\ program = "block_closure" =>
            IsPrefix(printed, << ToString(input + 1), ToString(input + 2) >>)

\* two closures share a closed cell, and one has just read through it the
\* value 9 the other wrote
C3_Witness ==
    /\ status = "running"
    /\ last.op = "GetUpvalue"
    /\ Last(stack) = Number(9)
    /\ \E c1, c2 \in 1..Len(closures) :
        /\ c1 # c2
        /\ \E i \in 1..Len(closures[c1].upvalues), j \in 1..Len(closures[c2].upvalues) :
            /\ closures[c1].upvalues[i] = closures[c2].upvalues[j]
            /\ cells[closures[c1].upvalues[i]].kind = "Heap"

Fails == status = "running" /\ status' = "failed"
AfterFailure == status \in {"failed", "reported"}
TraceNames(t) == [ k \in 1..Len(t) |-> t[k].func_name ]
FrameNames(fs) == [ k \in 1..Len(fs) |-> closures[fs[Len(fs) + 1 - k].closure].func.name ]

\* C5 (as amended): when an instruction fails the sink receives the error and
\* a stack trace with one element per frame active at the failure, newest
\* first; the value stack and the frame stack are then empty; nothing is
\* printed by the failing step, no instruction is executed afterwards, and
\* the only thing printed afterwards is the one line interpret prints,
\* "Completed with errors. See messages above".
C5_FatalError ==
    [][/\ Fails =>
            /\ IsSome(vm_error') /\ IsSome(stack_trace')
            /\ TraceNames(Unwrap(stack_trace')) = FrameNames(frames)
            /\ stack' = <<>> /\ frames' = <<>>
            /\ printed' = printed
       /\ AfterFailure =>
            /\ status' = "reported" /\ last' = last
            /\ stack' = <<>> /\ frames' = <<>>
            /\ vm_error' = vm_error /\ stack_trace' = stack_trace
            /\ console' = console /\ globals' = globals
            /\ printed' = Append(printed, "Completed with errors. See messages above")
            /\ status = "failed"]_vars

\* C5 as stated: after a failure no further value is printed
C5_NothingPrintedAfter == [][AfterFailure => printed' = printed]_vars

\* a division that failed two calls deep: the trace has the three active
\* frames, the stacks are empty and the statements after it never ran
C5_Witness ==
    /\ status = "failed"
    /\ last.op = "Divide"
    /\ Len(Unwrap(stack_trace)) = 3
    /\ printed = <<>>
    /\ stack = <<>> /\ frames = <<>>

\* C6: the error of a failing instruction carries a line number, the entry
\* of the current frame's line table at ip - 1 (ip being just past the
\* instruction that failed).
C6_ErrorLine ==
    [][Fails =>
            /\ IsSome(Unwrap(vm_error').line_number)
            /\ Unwrap(vm_error').line_number = line_number(frame_chunk(M), Fetched.offset - 1)]_vars

\* the operand of the Call about to execute, and the value it calls
Argc == Fetched.instr.a
Callee == stack[Len(stack) - Argc]

\* C7: Call argc on a closure pushes a frame only if argc is the closure's
\* arity; the frame starts at top - argc - 1, so its slot 0 is the callee and
\* slots 1..argc are the arguments, and the value stack is untouched; with
\* another argc the run fails with "Expected <arity> arguments but got
\* <argc>" and no frame is pushed; Call on a value that is no function and
\* no class fails with "Can only call functions and classes".
C7_CallClosure ==
    [][Executing("Call") /\ Argc < Len(stack) =>
        /\ Callee.t = "Closure" =>
            LET arity == closures[Callee.id].func.arity
            IN  /\ Len(frames') > Len(frames) => arity = Argc
                /\ arity = Argc /\ Len(frames) < FRAMES_MAX =>
                    /\ status' = "running"
                    /\ Len(frames') = Len(frames) + 1
                    /\ Last(frames') = [closure |-> Callee.id, ip |-> 0,
                                        frame_start |-> Len(stack) - Argc - 1]
                    /\ stack' = stack
                    /\ stack'[Last(frames').frame_start + 1] = Callee
                    /\ \A k \in 1..Argc :
                          stack'[Last(frames').frame_start + 1 + k]
                            = stack[Len(stack) - Argc + k]
                /\ arity # Argc =>
                    /\ status' = "failed" /\ frames' = <<>>
                    /\ Unwrap(vm_error').text = "Expected " \o ToString(arity)
                                \o " arguments but got " \o ToString(Argc)
        /\ Callee.t \in {"Nil", "Bool", "Number", "Text", "Instance"} =>
            /\ status' = "failed" /\ frames' = <<>>
            /\ Unwrap(vm_error').text = "Can only call functions and classes"]_vars

\* f(k) has just been called with one argument: the new frame's slot 0 is
\* the closure f and its slot 1 the argument
C7_Witness ==
    /\ program = "calls" /\ status = "running"
    /\ last = I1("Call", 1)
    /\ Len(frames) = 2 /\ frame(M).ip = 0
    /\ frame(M).frame_start = Len(stack) - 2
    /\ stack[frame(M).frame_start + 1].t = "Closure"
    /\ stack[frame(M).frame_start + 2] = Number(input)

\* the class called by the Call about to execute has a method `init`
HasInit == INITIALIZER_METHOD_NAME \in DOMAIN classes[Callee.id].methods

\* C8: calling a class puts a new instance in the callee slot; if the class
\* defines `init`, a frame running init's closure is pushed when argc is
\* init's arity and the run fails with "Expected N arguments but got M"
\* otherwise; if it defines no `init`, argc > 0 is a runtime error.
C8_ClassCall ==
    [][Executing("Call") /\ Argc < Len(stack) /\ Callee.t = "Class" =>
        LET init == classes[Callee.id].methods[INITIALIZER_METHOD_NAME]
        IN  /\ status' = "running" =>
                /\ stack'[Len(stack) - Argc].t = "Instance"
                /\ instances'[stack'[Len(stack) - Argc].id].class = Callee.id
                /\ Len(instances') = Len(instances) + 1
            /\ HasInit /\ closures[init.id].func.arity = Argc =>
                /\ Len(frames') = Len(frames) + 1
                /\ Last(frames').closure = init.id
                /\ Last(frames').frame_start = Len(stack) - Argc - 1
            /\ HasInit /\ closures[init.id].func.arity # Argc =>
                /\ status' = "failed"
                /\ Unwrap(vm_error').text =
                        "Expected " \o ToString(closures[init.id].func.arity)
                            \o " arguments but got " \o ToString(Argc)
            /\ ~HasInit /\ Argc > 0 => status' = "failed"]_vars

\* C9: calling a bound method pushes a frame running the method's closure
\* whose slot 0 holds the receiver the method was read from and whose slots
\* 1..argc hold the arguments of the call.
C9_BoundCall ==
    [][Executing("Call") /\ Argc < Len(stack) /\ Callee.t = "BoundMethod"
            /\ closures[bounds[Callee.id].method].func.arity = Argc =>
        /\ status' = "running"
        /\ Len(frames') = Len(frames) + 1
        /\ Last(frames').closure = bounds[Callee.id].method
        /\ Last(frames').frame_start = Len(stack) - Argc - 1
        /\ stack'[Len(stack) - Argc] = bounds[Callee.id].receiver
        /\ \A k \in 1..Argc : stack'[Len(stack) - Argc + k] = stack[Len(stack) - Argc + k]]_vars

\* the name read by the GetProperty about to execute and the value it is
\* read from
PropertyName == frame_chunk(M).constants[Fetched.instr.a + 1].s
Receiver == Last(stack)

\* C10: GetProperty on an instance yields the field of that name if the
\* instance has one, even when the class has a method of that name;
\* otherwise a bound method of that instance and the class's method of that
\* name; otherwise the run fails with "Undefined property 'NAME'"; on
\* success the instance on top of the stack is replaced by that one value.
C10_GetProperty ==
    [][Executing("GetProperty") /\ stack # <<>> /\ Receiver.t = "Instance" =>
        LET fields == instances[Receiver.id].fields
            methods == classes[instances[Receiver.id].class].methods
        IN  /\ PropertyName \in DOMAIN fields =>
                /\ status' = "running"
                /\ stack' = Append(Front(stack), fields[PropertyName])
            /\ PropertyName \notin DOMAIN fields /\ PropertyName \in DOMAIN methods =>
                /\ status' = "running"
                /\ Front(stack') = Front(stack) /\ Len(stack') = Len(stack)
                /\ Last(stack').t = "BoundMethod"
                /\ bounds'[Last(stack').id] = [receiver |-> Receiver,
                                               method |-> methods[PropertyName].id]
            /\ PropertyName \notin DOMAIN fields /\ PropertyName \notin DOMAIN methods =>
                /\ status' = "failed"
                /\ Unwrap(vm_error').text = "Undefined property '" \o PropertyName \o "'"]_vars

\* `print o.m` has read the field m, which hides the method m of the class
C10_Witness ==
    /\ program = "classes" /\ status = "running"
    /\ last.op = "GetProperty"
    /\ Last(stack) = Number(input)
    /\ \E i \in 1..Len(instances) :
            /\ "m" \in DOMAIN instances[i].fields
            /\ "m" \in DOMAIN classes[instances[i].class].methods

\* the name operand of the DefineGlobal, GetGlobal or SetGlobal about to execute
GlobalName == frame_chunk(M).constants[Fetched.instr.a + 1].s

\* C11: SetGlobal on a name the globals map does not hold fails with
\* "Undefined variable NAME" and leaves the map as it was; SetGlobal on a
\* name it holds stores the top of the stack under it and keeps it on the
\* stack; DefineGlobal on a name it holds replaces the entry, without error;
\* no step of a running program other than DefineGlobal adds a name.
C11_Globals ==
    [][/\ Executing("SetGlobal") /\ GlobalName \notin DOMAIN globals =>
            /\ status' = "failed"
            /\ Unwrap(vm_error').text = "Undefined variable " \o GlobalName
            /\ globals' = globals
       /\ Executing("SetGlobal") /\ GlobalName \in DOMAIN globals /\ stack # <<>> =>
            /\ status' = "running"
            /\ globals' = [globals EXCEPT ![GlobalName] = Last(stack)]
            /\ stack' = stack
       /\ Executing("DefineGlobal") /\ GlobalName \in DOMAIN globals /\ stack # <<>> =>
            /\ status' = "running"
            /\ globals' = [globals EXCEPT ![GlobalName] = Last(stack)]
            /\ stack' = Front(stack)
       /\ status = "running" /\ DOMAIN globals' # DOMAIN globals =>
            /\ Executing("DefineGlobal")
            /\ DOMAIN globals' = DOMAIN globals \cup {GlobalName}]_vars

\* `b = 2` has failed on the undefined b after `var a` was defined twice:
\* the map holds a with the second value, and no b
C11_Witness ==
    /\ program = "globals" /\ status = "failed"
    /\ last.op = "SetGlobal"
    /\ "b" \notin DOMAIN globals
    /\ "a" \in DOMAIN globals /\ globals["a"] = Number(input + 1)

\* the instruction at offset o of the current chunk, and the offset after it
OpAt(o) == fetch(frame_chunk(M).code, o).instr.op
After(o) == fetch(frame_chunk(M).code, o).offset

\* the Loop about to execute is the one emitted for the `continue` of
\* program for_continue: the only Loop of that program followed by the Jump
\* that skips an absent else branch
ContinueStep ==
    /\ program = "for_continue"
    /\ Executing("Loop")
    /\ OpAt(Fetched.offset) = "Jump"

\* C12: in a for loop with an increment clause `continue` jumps to the
\* increment clause: in `for (var i = 0; i < K; i = i + 1) { if (i == 1)
\* continue; print i; }` the step executing continue's Loop lands on the
\* code of `i = i + 1` (GetLocal, Constant, Add, SetLocal), which runs
\* before the condition `i < K` (GetLocal, Constant, Less) is evaluated.
C12_ContinueRunsIncrement ==
    [][ContinueStep =>
        LET target == frames'[Len(frames')].ip
        IN  /\ OpAt(target) = "GetLocal"
            /\ OpAt(After(target)) = "Constant"
            /\ OpAt(After(After(target))) = "Add"
            /\ OpAt(After(After(After(target)))) = "SetLocal"]_vars

\* the offsets at which the instructions of a chunk start (a chunk without
\* Closure instructions)
RECURSIVE offsets_from(_, _)
offsets_from(code, o) ==
    IF o >= Len(code) THEN {} ELSE {o} \cup offsets_from(code, fetch(code, o).offset)
Offsets == offsets_from(frame_chunk(M).code, 0)

\* where the Loop at offset o jumps back to
LoopTarget(o) ==
    After(o) - bytes_to_word(fetch(frame_chunk(M).code, o).instr.a,
                             fetch(frame_chunk(M).code, o).instr.b)

\* the Loop instructions that close a loop around offset o, and the
\* innermost of them
LoopsAround(o) == { l \in Offsets : OpAt(l) = "Loop" /\ LoopTarget(l) <= o /\ o < l }
InnermostLoop(o) == CHOOSE l \in LoopsAround(o) : \A l2 \in LoopsAround(o) : l <= l2

\* the Jump about to execute is a `break` of program nested_break, whose
\* only Jump instructions are those of `break`
BreakStep == program = "nested_break" /\ Executing("Jump")

\* what `var i = 0; while (i < K) { i = i + 1; while (true) { break;
\* print "a"; } print i; } print "x";` prints
NestedBreakOutput == [ k \in 1..input |-> ToString(k) ] \o << "x" >>

\* C13: the Jump of a `break` lands on the instruction right after the exit
\* Pop of the innermost loop around it, that Pop following the loop's
\* closing Loop; the step changes neither the stack nor the frames. In
\* program nested_break the inner loop's `print "a"` after the break never
\* runs and the outer loop goes on: every i from 1 to K is printed, then x.
C13_Break ==
    [][/\ BreakStep =>
            LET target == frames'[Len(frames')].ip
                closing == InnermostLoop(frame(M).ip)
            IN  /\ LoopsAround(frame(M).ip) # {}
                /\ OpAt(After(closing)) = "Pop"
                /\ target = After(After(closing))
                /\ stack' = stack
                /\ Len(frames') = Len(frames)
       /\ program = "nested_break" =>
            /\ IsPrefix(printed', NestedBreakOutput)
            /\ status' = "done" => printed' = NestedBreakOutput]_vars

\* the second round of the outer loop has printed 2 after the inner loop
\* was left by `break` twice
C13_Witness ==
    /\ program = "nested_break" /\ input >= 2
    /\ status = "running" /\ last.op = "Print"
    /\ printed = << "1", "2" >>

\* what `fun f() { print "init"; return K; } switch (f()) { case 3: print
\* "y"; default: print "outside"; case 1: print "a"; print "b"; case 1:
\* print "updated"; } print "x";` prints
SwitchDefaultOutput ==
    << "init" >>
    \o (CASE input = 3 -> << "y" >>
          [] input = 1 -> << "a", "b" >>
          [] OTHER -> << "outside" >>)
    \o << "x" >>

\* C14: a switch evaluates the switched expression once (f prints init
\* once), runs the body of the first case equal to it and no other body
\* (`case 1` twice: only the first runs; no fall-through into the next
\* case), and runs the default body exactly when no case is equal, although
\* `default` is written before the matching cases; a switch with two
\* `default` labels does not compile ("Multiple default labels in one
\* switch").
C14_Switch ==
    /\ program = "switch_default" =>
            /\ IsPrefix(printed, SwitchDefaultOutput)
            /\ status \in {"source", "running", "done"}
            /\ status = "done" => printed = SwitchDefaultOutput
    /\ program = "switch_defaults" /\ status # "source" =>
            /\ status = "compile_failed"
            /\ \E k \in 1..Len(compile_errors) :
                    compile_errors[k].message = "Multiple default labels in one switch"
            /\ printed = <<>>

\* the default block, written before the last cases, has run because no
\* case was equal to the switched value, and the switch is over
C14_Witness ==
    /\ program = "switch_default" /\ input = 0
    /\ status = "done"
    /\ printed = << "init", "outside", "x" >>

\* C15: a switch leaves the stack as high as it found it, on every path. In
\* the programs switch and switch_default, which consist of switch, print
\* and var statements only, the stack of the script's frame therefore
\* holds, at the start of each statement, exactly the declared locals, and
\* nothing is left when the script has returned.
C15_SwitchBalanced ==
    program \in {"switch", "switch_default"} =>
        /\ status = "running" /\ Len(frames) = 1 =>
                \A n \in DeclaredHere : Len(stack) = n
        /\ status = "done" => stack = <<>>

(***************************************************************************)
(* Compiler scopes on their own (frontend/compiler.rs): `unit` is one      *)
(* Compiler, driven through begin_scope, declarations, captures and        *)
(* end_scope as the assembler drives it.                                   *)
(***************************************************************************)
MaxScopeDepth == 3
MaxScopeLocals == 3

\* no program is being interpreted
Idle ==
    /\ program = ProgramNames[1] /\ input = 0
    /\ status = "source"
    /\ frames = <<>> /\ stack = <<>> /\ globals = EmptyMap /\ open_upvalues = <<>>
    /\ closures = <<>> /\ cells = <<>> /\ classes = <<>> /\ instances = <<>>
    /\ bounds = <<>> /\ printed = <<>> /\ console = <<>>
    /\ vm_error = None /\ stack_trace = None /\ compile_errors = <<>>
    /\ last = NoInstruction

InitScope == Idle /\ unit \in { compiler_with(t) : t \in {"Script", "Function"} }

\* Compiler::begin_scope
ScopeBegin ==
    /\ unit.depth < MaxScopeDepth
    /\ unit' = [unit EXCEPT !.depth = @ + 1]
    /\ UNCHANGED interpreter

\* a local variable declared and defined in the current scope:
\* Compiler::push_local (from Assembler::add_local), then
\* Compiler::mark_initialized (from Assembler::define_variable)
ScopeDeclare ==
    /\ unit.depth > 0
    /\ Len(unit.locals) + Len(unit.func.chunk.code) <= MaxScopeLocals
    /\ \E name \in {"a", "b"} :
            unit' = mark_initialized(
                        [unit EXCEPT !.locals = Append(@, local_with_name(name))])
    /\ UNCHANGED interpreter

\* an inner function captures a local: Compiler::resolve_upvalue sets
\* is_captured on the local of the enclosing compiler
ScopeCapture ==
    /\ \E i \in 2..Len(unit.locals) :
            /\ ~unit.locals[i].is_captured
            /\ unit' = [unit EXCEPT !.locals[i].is_captured = TRUE]
    /\ UNCHANGED interpreter

\* Compiler::end_scope, called by Assembler::end_scope after a begin_scope
ScopeEnd ==
    /\ unit.depth > 0
    /\ unit' = compiler_end_scope(unit, 1)
    /\ UNCHANGED interpreter

NextScope == ScopeBegin \/ ScopeDeclare \/ ScopeCapture \/ ScopeEnd

SpecScope == InitScope /\ [][NextScope]_vars

\* the locals of compiler c declared deeper than depth d
Deeper(c, d) == { i \in 1..Len(c.locals) : Unwrap(c.locals[i].depth) > d }

\* C16: a step that ends a scope (the depth goes down by one) removes
\* exactly the locals declared deeper than the new depth and keeps the
\* others as they are, and appends to the chunk one instruction per removed
\* local, newest local first: CloseUpvalue if it was captured, Pop if not.
C16_EndScope ==
    [][unit'.depth < unit.depth =>
        LET n == Cardinality(Deeper(unit, unit'.depth))
            old == unit.func.chunk.code
        IN  /\ unit'.depth = unit.depth - 1
            /\ unit'.locals = SubSeq(unit.locals, 1, Len(unit.locals) - n)
            /\ Deeper(unit', unit'.depth) = {}
            /\ unit'.func.chunk.code = old \o
                    [ k \in 1..n |->
                        OpcodeOf(IF unit.locals[Len(unit.locals) + 1 - k].is_captured
                                 THEN "CloseUpvalue" ELSE "Pop") ]]_vars

\* a scope with an uncaptured local and a newer, captured one has ended:
\* CloseUpvalue, then Pop were emitted, and the compiler is in a scope that
\* has a local of its own
C16_Witness ==
    /\ unit.depth = 1 /\ Len(unit.locals) = 2
    /\ unit.func.chunk.code = << OpcodeOf("CloseUpvalue"), OpcodeOf("Pop") >>

\* the function loaded by the Closure about to execute, and the k-th
\* upvalue descriptor that follows the instruction
ClosureFunc == frame_chunk(M).constants[Fetched.instr.a + 1].func
Descriptor(k) == Unwrap(upvalue_fetch(frame_chunk(M).code, Fetched.offset + 2 * (k - 1)))

\* the chunk positions at which the compiler started a statement of the
\* current function
StatementStarts == { frame_func(M).marks[k].pos : k \in 1..Len(frame_func(M).marks) }

\* C17: every closure has as many upvalue entries as its function's
\* upvalue_count, each one a cell. A Closure instruction builds them from
\* the upvalue_count descriptors that follow it: a local descriptor gives
\* the open cell of that slot of the current frame, any other the cell of
\* the enclosing closure at that index; the instruction pointer then stands
\* right after the last descriptor, which is where the compiler started the
\* next statement: it emitted exactly upvalue_count descriptors.
C17_ClosureUpvalues ==
    [][/\ \A c \in 1..Len(closures') :
            /\ Len(closures'[c].upvalues) = closures'[c].func.upvalue_count
            /\ \A k \in 1..Len(closures'[c].upvalues) :
                    closures'[c].upvalues[k] \in 1..Len(cells')
       /\ Executing("Closure") /\ status' = "running" =>
            LET n == ClosureFunc.upvalue_count
                new == closures'[Len(closures')]
            IN  /\ Len(closures') = Len(closures) + 1
                /\ Last(stack') = ClosureVal(Len(closures'))
                /\ new.func = ClosureFunc
                /\ \A k \in 1..n :
                        IF Descriptor(k).is_local
                        THEN cells'[new.upvalues[k]] =
                                [kind |-> "Stack",
                                 index |-> frame(M).frame_start + Descriptor(k).index,
                                 value |-> Nil]
                        ELSE new.upvalues[k] =
                                closures[frame(M).closure].upvalues[Descriptor(k).index + 1]
                /\ frames'[Len(frames')].ip = Fetched.offset + 2 * n
                /\ n > 0 => frames'[Len(frames')].ip \in StatementStarts]_vars

\* a closure with one upvalue has just been created in a function that had
\* already created another closure over the same local
C17_Witness ==
    /\ status = "running" /\ last.op = "Closure"
    /\ Last(stack).t = "Closure"
    /\ Len(closures[Last(stack).id].upvalues) = 1
    /\ \E c \in 1..Len(closures) :
            /\ c # Last(stack).id
            /\ closures[c].upvalues = closures[Last(stack).id].upvalues

(***************************************************************************)
(* Error reporting of the parser on its own (frontend/assembler.rs):       *)
(* `unit` is an Assembler over a short source, with the function last      *)
(* applied to it, driven through advance, consume, error and synchronize.  *)
(***************************************************************************)
MaxSourceLen == 3
MaxErrors == 3

\* the one-line sources of up to MaxSourceLen lexemes
RECURSIVE SourcesOfLen(_)
SourcesOfLen(n) ==
    IF n = 0 THEN { <<>> }
    ELSE { Append(s, x) : s \in SourcesOfLen(n - 1), x \in {"var", "1", "@", ";"} }
ErrorSources == UNION { SourcesOfLen(n) : n \in 0..MaxSourceLen }

\* Assembler::compile starts with advance
InitErrors ==
    /\ Idle
    /\ unit \in { [p |-> advance(assembler_new(TokensOf(<< s >>))), op |-> "advance"] :
                    s \in ErrorSources }

\* Assembler::advance
ErrorsAdvance ==
    /\ unit.p.current.t_type # "Eof"
    /\ unit' = [p |-> advance(unit.p), op |-> "advance"]
    /\ UNCHANGED interpreter

\* Assembler::consume of a token type the grammar asks for
ErrorsConsume ==
    /\ Len(unit.p.errors) < MaxErrors
    /\ \E t \in {"Semicolon", "Identifier"} :
            unit' = [p |-> consume(unit.p, t, "Expect " \o t), op |-> "consume"]
    /\ UNCHANGED interpreter

\* Assembler::error on the previous token
ErrorsError ==
    /\ Len(unit.p.errors) < MaxErrors
    /\ unit' = [p |-> error(unit.p, "Expect expression"), op |-> "error"]
    /\ UNCHANGED interpreter

\* Assembler::synchronize, called by declaration when the panic flag is set
ErrorsSynchronize ==
    /\ unit.p.panic_mode
    /\ unit' = [p |-> synchronize(unit.p), op |-> "synchronize"]
    /\ UNCHANGED interpreter

NextErrors == ErrorsAdvance \/ ErrorsConsume \/ ErrorsError \/ ErrorsSynchronize

SpecErrors == InitErrors /\ [][NextErrors]_vars

\* C18: while the panic flag is set no step but synchronize adds an error;
\* an error reported while the flag is clear is added to the list; and
\* synchronize leaves the flag clear, so that the next error met is
\* recorded again.
C18_PanicMode ==
    [][unit' # unit =>
        /\ unit.p.panic_mode /\ unit'.op # "synchronize" =>
                unit'.p.errors = unit.p.errors
        /\ ~unit.p.panic_mode /\ unit'.op = "error" =>
                /\ Len(unit'.p.errors) = Len(unit.p.errors) + 1
                /\ unit'.p.panic_mode
        /\ unit'.op = "synchronize" => ~unit'.p.panic_mode]_vars

\* C19: if compile recorded an error, the error list is all interpret hands
\* on: no machine is created, no instruction runs, nothing is printed and
\* no runtime error or stack trace is reported; a machine exists, running
\* the compiled script, only if no error was recorded.
C19_CompileErrors ==
    /\ compile_errors # <<>> =>
            /\ status = "compile_failed"
            /\ M = NoMachine
            /\ last = NoInstruction
            /\ vm_error = None /\ stack_trace = None
    /\ status = "compile_failed" => compile_errors # <<>>
    /\ status \in {"running", "done", "failed", "reported"} =>
            /\ compile_errors = <<>>
            /\ closures # <<>> /\ closures[1].func.name = None

\* the three errors of program compile_error have been handed to the sink
C19_Witness ==
    /\ program = "compile_error" /\ status = "compile_failed"
    /\ Len(compile_errors) = 3
    /\ printed = <<>> /\ frames = <<>>

(***************************************************************************)
(* The value stack near its limit (backend/machine.rs): `unit` is a        *)
(* machine whose stack is within MaxHeadroom values of STACK_MAX_SIZE,     *)
(* with the result of the stack function last applied to it.               *)
(***************************************************************************)
MaxHeadroom == 4

\* the machine and the outcome of a result r of stack function op
Applied(op, r) == [m |-> r.m, op |-> op, kind |-> r.kind, err |-> r.err]

InitPush ==
    /\ Idle
    /\ unit \in { Applied("none",
                          Ok([NoMachine EXCEPT !.stack = [ k \in 1..n |-> Nil ]])) :
                    n \in (STACK_MAX_SIZE - MaxHeadroom)..STACK_MAX_SIZE }

\* Machine::stack_push of a value
PushStep ==
    /\ \E v \in {Nil, Bool(TRUE)} : unit' = Applied("push", stack_push(unit.m, v))
    /\ UNCHANGED interpreter

\* Machine::op_pop
PopStep ==
    /\ Len(unit.m.stack) > STACK_MAX_SIZE - MaxHeadroom
    /\ unit' = Applied("pop", op_pop(unit.m))
    /\ UNCHANGED interpreter

\* Machine::op_duplicate_top
DuplicateStep ==
    /\ unit' = Applied("duplicate", op_duplicate_top(unit.m))
    /\ UNCHANGED interpreter

\* Machine::op_binary, which pushes its result without stack_push
BinaryStep ==
    /\ Len(unit.m.stack) > STACK_MAX_SIZE - MaxHeadroom + 1
    /\ unit' = Applied("binary", op_binary(unit.m, "Equal"))
    /\ UNCHANGED interpreter

NextPush == PushStep \/ PopStep \/ DuplicateStep \/ BinaryStep

SpecPush == InitPush /\ [][NextPush]_vars

\* C20: the stack never holds more than STACK_MAX_SIZE = 16384 values; a
\* push (of a new value, or of the copy Duplicate makes) on a stack of
\* fewer values appends the value and succeeds, a push on a stack of 16384
\* values fails with "Stack overflow" and leaves the stack as it is.
C20_StackLimit ==
    [][/\ STACK_MAX_SIZE = 16384
       /\ Len(unit'.m.stack) <= STACK_MAX_SIZE
       /\ unit' # unit /\ unit'.op \in {"push", "duplicate"} =>
            IF Len(unit.m.stack) < STACK_MAX_SIZE
            THEN /\ unit'.kind = "Ok"
                 /\ Front(unit'.m.stack) = unit.m.stack
                 /\ unit'.op = "duplicate" => Last(unit'.m.stack) = Last(unit.m.stack)
            ELSE /\ unit'.kind = "Err"
                 /\ unit'.err.text = "Stack overflow"
                 /\ unit'.m.stack = unit.m.stack]_vars

\* a push on a full stack has failed and the stack still holds 16384 values
C20_Witness ==
    /\ unit.op = "push" /\ unit.kind = "Err"
    /\ unit.err.text = "Stack overflow"
    /\ Len(unit.m.stack) = STACK_MAX_SIZE

\* the Call about to execute calls a closure with as many arguments as its
\* arity
MatchingCall ==
    /\ Executing("Call") /\ Argc < Len(stack)
    /\ Callee.t = "Closure"
    /\ closures[Callee.id].func.arity = Argc

\* the function calls in progress: every frame but the script's, which
\* Machine::with pushes
CallsActive == Len(frames) - 1

\* C21 (as amended): the frame stack never holds more than FRAMES_MAX = 64
\* frames, the script's frame included; a matching call made with fewer
\* than 63 calls in progress pushes a frame, and the call made with 63 in
\* progress (the 64th of a chain started from top-level code) fails with
\* "Stack overflow" and pushes nothing.
C21_FrameLimit ==
    [][/\ FRAMES_MAX = 64
       /\ Len(frames') <= FRAMES_MAX
       /\ MatchingCall /\ CallsActive < FRAMES_MAX - 1 =>
            /\ status' = "running"
            /\ Len(frames') = Len(frames) + 1
       /\ MatchingCall /\ CallsActive = FRAMES_MAX - 1 =>
            /\ status' = "failed"
            /\ Unwrap(vm_error').text = "Stack overflow"
            /\ Len(Unwrap(stack_trace')) = FRAMES_MAX]_vars

\* C21 as stated: a call made with fewer than 64 calls in progress succeeds
\* (64 nested calls are legal, the 65th fails)
C21_SixtyFourCalls ==
    [][MatchingCall /\ CallsActive < FRAMES_MAX => status' = "running"]_vars

\* the recursion has failed with 64 frames active: the script's and 63 of r
C21_Witness ==
    /\ program = "recursion" /\ status = "failed"
    /\ last.op = "Call"
    /\ Unwrap(vm_error).text = "Stack overflow"
    /\ Len(Unwrap(stack_trace)) = FRAMES_MAX

(***************************************************************************)
(* The upvalue table of one function (frontend/compiler.rs): `unit` is a   *)
(* Compiler that has captured a few variables, or nearly UINT8_COUNT of    *)
(* them, with the result of the add_upvalue last applied to it.            *)
(***************************************************************************)
MaxUpvalues == 3

\* a compiler that has captured the first n locals of its enclosing function
CompilerCapturing(n) ==
    [compiler_with("Function") EXCEPT
        !.upvalues = [ k \in 1..n |-> [index |-> k - 1, is_local |-> TRUE] ],
        !.func.upvalue_count = n]

InitUpvalue ==
    /\ Idle
    /\ unit \in { [c |-> CompilerCapturing(n), data |-> None, ok |-> TRUE, index |-> 0] :
                    n \in (0..MaxUpvalues)
                          \cup ((UINT8_COUNT - MaxUpvalues)..UINT8_COUNT) }

\* Compiler::add_upvalue, as Compiler::resolve_upvalue calls it for a local
\* of the enclosing function (is_local) or for one of its upvalues
AddUpvalue ==
    /\ \/ unit.c.func.upvalue_count < MaxUpvalues
       \/ unit.c.func.upvalue_count >= UINT8_COUNT - MaxUpvalues
    /\ \E index \in {0, 1, unit.c.func.upvalue_count % 256, 255}, is_local \in BOOLEAN :
            LET r == add_upvalue(unit.c, index, is_local)
            IN  unit' = [c |-> r.c, data |-> Some([index |-> index, is_local |-> is_local]),
                         ok |-> r.ok, index |-> r.index]
    /\ UNCHANGED interpreter

NextUpvalue == AddUpvalue

SpecUpvalue == InitUpvalue /\ [][NextUpvalue]_vars

\* the positions of descriptor d among the upvalues of compiler c
PositionsOf(c, d) == { i \in 1..c.func.upvalue_count : c.upvalues[i] = d }

\* C22: add_upvalue of a descriptor the function already has returns the
\* index it was first given and changes nothing; of a new one it returns
\* the old upvalue_count, stores the descriptor there and increases
\* upvalue_count by one, as long as upvalue_count is below 256; with 256
\* upvalues a new descriptor is refused and nothing changes.
C22_AddUpvalue ==
    [][unit' # unit =>
        LET c == unit.c
            d == Unwrap(unit'.data)
            count == c.func.upvalue_count
        IN  /\ UINT8_COUNT = 256
            /\ unit'.c.func.upvalue_count <= UINT8_COUNT
            /\ Len(unit'.c.upvalues) = unit'.c.func.upvalue_count
            /\ \A i, j \in 1..Len(unit'.c.upvalues) :
                    unit'.c.upvalues[i] = unit'.c.upvalues[j] => i = j
            /\ PositionsOf(c, d) # {} =>
                    /\ unit'.ok /\ unit'.c = c
                    /\ PositionsOf(c, d) = {unit'.index + 1}
            /\ PositionsOf(c, d) = {} /\ count < UINT8_COUNT =>
                    /\ unit'.ok /\ unit'.index = count
                    /\ unit'.c.func.upvalue_count = count + 1
                    /\ unit'.c.upvalues = Append(c.upvalues, d)
            /\ PositionsOf(c, d) = {} /\ count = UINT8_COUNT =>
                    /\ ~unit'.ok /\ unit'.c = c]_vars

\* a 257th variable has been refused by a function with 256 upvalues
C22_Witness ==
    /\ ~unit.ok
    /\ unit.c.func.upvalue_count = UINT8_COUNT
    /\ PositionsOf(unit.c, Unwrap(unit.data)) = {}

(***************************************************************************)
(* Jump offsets (frontend/assembler.rs patch_jump, emit_loop): `unit` is   *)
(* an Assembler whose script starts with a forward jump still to be        *)
(* patched, followed by a few bytes of code or by nearly u16::MAX of them, *)
(* with the distances the jumps written so far have to cover.              *)
(***************************************************************************)
MaxJumpSlack == 2

\* the code emitted after the jump at offset 0
CodeAfterJump(p) == chunk_position(cur(p)) - size(Instr("Jump", 0, 0))

\* an Assembler that emitted the jump `op` with a stub offset and n bytes
AssemblerAfterJump(op, n) ==
    LET p == emit_instruction(init_compiler(assembler_new(<<>>), "Script"),
                              Instr(op, 255, 255))
    IN  with_cur(p, emit_buffer(cur(p), [ k \in 1..n |-> as_vec(I0("Pop"))[1] ], 1))

InitJump ==
    /\ Idle
    /\ unit \in { [p |-> AssemblerAfterJump(op, n), jump |-> None, loop |-> None,
                   result |-> None, ran |-> None, op |-> "init"] :
                    op \in {"Jump", "JumpIfFalse"},
                    n \in (0..MaxJumpSlack)
                          \cup ((U16_MAX - MaxJumpSlack)..U16_MAX) }

\* one more byte of code to jump over
JumpEmit ==
    /\ unit.result = None /\ unit.jump = None /\ unit.loop = None
    /\ \/ CodeAfterJump(unit.p) < MaxJumpSlack
       \/ /\ CodeAfterJump(unit.p) >= U16_MAX - MaxJumpSlack
          /\ CodeAfterJump(unit.p) < U16_MAX + MaxJumpSlack
    /\ unit' = [unit EXCEPT !.p = emit_instruction(@, I0("Pop")), !.op = "emit"]
    /\ UNCHANGED interpreter

\* Assembler::patch_jump of the jump at offset 0, to the current position
JumpPatch ==
    /\ unit.result = None /\ unit.jump = None
    /\ unit' = [unit EXCEPT !.p = patch_jump(@, 0),
                            !.jump = Some(CodeAfterJump(unit.p)),
                            !.op = "patch_jump"]
    /\ UNCHANGED interpreter

\* Assembler::emit_loop back to a loop that started at loop_start
JumpLoop ==
    /\ unit.result = None /\ unit.loop = None
    /\ \E loop_start \in {0, 2 * size(Instr("Loop", 0, 0))} :
        /\ loop_start <= chunk_position(cur(unit.p))
        /\ unit' = [unit EXCEPT !.p = emit_loop(@, loop_start),
                                !.loop = Some([at |-> chunk_position(cur(unit.p)),
                                               start |-> loop_start]),
                                !.op = "emit_loop"]
    /\ UNCHANGED interpreter

\* the end of Assembler::compile: end_compiler, then Err(errors) or Ok(func)
JumpCompiled ==
    /\ unit.result = None
    /\ LET e == end_compiler(unit.p)
       IN  unit' = [unit EXCEPT !.p = e.p, !.op = "compile",
                        !.result = Some(IF e.p.errors # <<>>
                                        THEN [kind |-> "Err", func |-> default_func]
                                        ELSE [kind |-> "Ok", func |-> e.c.func])]
    /\ UNCHANGED interpreter

NextJump == JumpEmit \/ JumpPatch \/ JumpLoop \/ JumpCompiled

SpecJump == InitJump /\ [][NextJump]_vars

\* the 16-bit operand of the instruction at offset o of the code
OperandAt(code, o) == bytes_to_word(code[o + 2], code[o + 3])

\* C23: patch_jump of a jump over at most 65535 bytes records no error and
\* stores that number of bytes (65535 included); over 65536 bytes or more
\* it leaves the compilation with errors; and in a chunk that compile
\* returns, the operand of every jump and loop written is the distance it
\* has to cover, never that distance truncated to 16 bits.
C23_JumpOffsets ==
    [][/\ U16_MAX = 65535
       /\ unit' # unit /\ unit'.op = "patch_jump" =>
            LET jump == CodeAfterJump(unit.p)
            IN  /\ jump <= U16_MAX =>
                    /\ unit'.p.errors = unit.p.errors
                    /\ OperandAt(cur(unit'.p).func.chunk.code, 0) = jump
                /\ jump > U16_MAX =>
                    /\ unit'.p.errors # <<>>
                    /\ unit.p.errors = <<>> =>
                         Last(unit'.p.errors).message = "Too much code to jump over"
       /\ unit' # unit /\ unit'.op = "compile" /\ Unwrap(unit'.result).kind = "Ok" =>
            LET code == Unwrap(unit'.result).func.chunk.code
            IN  /\ unit.jump # None => OperandAt(code, 0) = Unwrap(unit.jump)
                /\ unit.loop # None =>
                     OperandAt(code, Unwrap(unit.loop).at) =
                        Unwrap(unit.loop).at - Unwrap(unit.loop).start
                            + size(Instr("Loop", 0, 0))]_vars

\* a jump over exactly 65535 bytes was patched and compile returned the chunk
C23_Witness ==
    /\ unit.op = "compile" /\ Unwrap(unit.result).kind = "Ok"
    /\ unit.jump = Some(U16_MAX)
    /\ OperandAt(Unwrap(unit.result).func.chunk.code, 0) = U16_MAX

\* the first instruction of function f, and the functions among its constants
FirstInstruction(f) == fetch(f.chunk.code, 0).instr
FunctionsOf(f) ==
    { f.chunk.constants[i].func :
        i \in { j \in 1..Len(f.chunk.constants) : f.chunk.constants[j].t = "Fun" } }

\* C24: in a method, `this` is the local of slot 0: the body of method m of
\* program this_method, `return this;`, starts with GetLocal 0, and the
\* same statement in the function g nested in method n starts with a
\* GetUpvalue (the receiver captured from the method).
C24_ThisIsSlotZero ==
    program = "this_method" /\ Executing("Closure") =>
        /\ ClosureFunc.name = Some("m") =>
                FirstInstruction(ClosureFunc) = I1("GetLocal", 0)
        /\ ClosureFunc.name = Some("n") =>
                \A g \in FunctionsOf(ClosureFunc) :
                    FirstInstruction(g).op = "GetUpvalue"

\* the last n bytes of the code of function f
CodeTail(f, n) == SubSeq(f.chunk.code, Len(f.chunk.code) - n + 1, Len(f.chunk.code))

\* C25: a method named init that returns a value (program init_return) is
\* refused by the compiler, so the program never runs; and the code of
\* every init method ends with GetLocal 0, Return, which returns the
\* receiver at the end of the body.
C25_InitReturn ==
    /\ program = "init_return" => status \in {"source", "compile_failed"}
    /\ Executing("Closure") /\ ClosureFunc.name = Some(INITIALIZER_METHOD_NAME) =>
            CodeTail(ClosureFunc, 3) = as_vec(I1("GetLocal", 0)) \o as_vec(I0("Return"))

\* C26: a class declared with a superclass (program inherit: class B : A)
\* compiles, and once its declaration has executed its method table holds
\* every method of the superclass, with the superclass's closure.
C26_Inherit ==
    program = "inherit" =>
        /\ status \notin {"compile_failed", "compile_panic"}
        /\ status = "done" =>
            \E a, b \in 1..Len(classes) :
                /\ classes[a].name = "A" /\ classes[b].name = "B"
                /\ \A n \in DOMAIN classes[a].methods :
                        /\ n \in DOMAIN classes[b].methods
                        /\ classes[b].methods[n] = classes[a].methods[n]

\* C27: a `break` and a `continue` outside of any loop (lines 2 and 3 of
\* program outside_loop) are compile errors with the messages "'break'
\* statement allowed inside loops only" and "'continue' statement allowed
\* inside loops only", and the program is not run: nothing is printed and
\* no instruction is executed.
C27_OutsideLoop ==
    program = "outside_loop" =>
        /\ status \in {"source", "compile_failed"}
        /\ printed = <<>> /\ frames = <<>> /\ last = NoInstruction
        /\ status = "compile_failed" =>
             compile_errors =
                << [line |-> 2, message |-> "'break' statement allowed inside loops only"],
                   [line |-> 3, message |-> "'continue' statement allowed inside loops only"] >>

\* the compilation of program outside_loop has failed with both errors
C27_Witness ==
    /\ program = "outside_loop" /\ status = "compile_failed"
    /\ Len(compile_errors) = 2
    /\ compile_errors[2].message = "'continue' statement allowed inside loops only"

\* the line of the instruction that frame k (1 the oldest) is executing
\* when the current instruction fails: the failing instruction in the
\* newest frame, the pending Call in the others
ExecutingLine(k) ==
    LET f == frames[k]
        chunk == closures[f.closure].func.chunk
    IN  IF k = Len(frames) THEN line_number(chunk, Fetched.offset - 1)
        ELSE line_number(chunk, f.ip - 1)

\* C28: the stack trace of a failure has one element per active frame,
\* newest first, each with the line its frame was executing and the name
\* of its function, which is absent (shown as "script") for the top-level
\* frame only.
C28_StackTrace ==
    [][Fails /\ Fetched.ok =>
        LET trace == Unwrap(stack_trace')
        IN  /\ Len(trace) = Len(frames)
            /\ \A k \in 1..Len(frames) :
                 LET e == trace[Len(frames) + 1 - k]
                 IN  /\ e.func_name = closures[frames[k].closure].func.name
                     /\ (e.func_name = None) <=> (k = 1)
                     /\ e.line = ExecutingLine(k)]_vars

(***************************************************************************)
(* Equality of values (data/value.rs, Machine::op_binary): `unit` holds    *)
(* two values, a machine with the two on its stack and one with them in    *)
(* the other order, then what Equal made of each machine.                  *)
(***************************************************************************)
MaxEqual == 2

\* values of every variant the machine can have on its stack
EqualValues ==
    {Nil, NaN} \cup { Bool(b) : b \in BOOLEAN }
        \cup { Number(n) : n \in 0..MaxEqual }
        \cup { Text(s) : s \in {"", "a"} }
        \cup { NativeFun(name) : name \in {"write", "writeln"} }
        \cup { ClosureVal(i) : i \in 1..MaxEqual }
        \cup { ClassVal(i) : i \in 1..MaxEqual }
        \cup { InstanceVal(i) : i \in 1..MaxEqual }
        \cup { BoundVal(i) : i \in 1..MaxEqual }

MachineWith(a, b) == Ok([NoMachine EXCEPT !.stack = << a, b >>])

InitEqual ==
    /\ Idle
    /\ unit \in { [op |-> "none", a |-> a, b |-> b,
                   ab |-> MachineWith(a, b), ba |-> MachineWith(b, a)] :
                    a \in EqualValues, b \in EqualValues }

\* Instruction::Equal: Machine::op_binary with Value::equals
EqualStep ==
    /\ unit.op = "none"
    /\ unit' = [unit EXCEPT !.op = "Equal",
                            !.ab = op_binary(unit.ab.m, "Equal"),
                            !.ba = op_binary(unit.ba.m, "Equal")]
    /\ UNCHANGED interpreter

NextEqual == EqualStep

SpecEqual == InitEqual /\ [][NextEqual]_vars

\* the two values Equal is about to compare, and that it executes
EqualLeft == unit.a
EqualRight == unit.b
Equals == unit.op = "none" /\ unit'.op = "Equal"

\* C29 (as amended): Equal raises no error and replaces its two operands by
\* one Bool; the Bool is the same in either order of the operands; it is
\* false for values of different variants; on Nil, Bool, Number and Text it
\* compares the values and on the object variants the identity of the
\* object; every value is equal to itself except a Number that is NaN, which
\* is equal to nothing.
C29_Equal ==
    [][Equals =>
        LET a == EqualLeft
            b == EqualRight
        IN  /\ unit'.ab.kind = "Ok" /\ unit'.ba.kind = "Ok"
            /\ Len(unit'.ab.m.stack) = 1
            /\ unit'.ab.m.stack[1] \in { Bool(TRUE), Bool(FALSE) }
            /\ unit'.ba.m.stack = unit'.ab.m.stack
            /\ a.t # b.t => unit'.ab.m.stack[1] = Bool(FALSE)
            /\ a = b /\ ~IsNaN(a) => unit'.ab.m.stack[1] = Bool(TRUE)
            /\ IsNaN(a) \/ IsNaN(b) => unit'.ab.m.stack[1] = Bool(FALSE)
            /\ a.t = b.t /\ a.t \in {"Bool", "Number", "Text"} /\ a # b =>
                    unit'.ab.m.stack[1] = Bool(FALSE)
            /\ a.t = b.t /\ a.t \notin {"Nil", "Bool", "Number", "Text"} =>
                    unit'.ab.m.stack[1] = Bool(a.id = b.id)]_vars

\* C29 as stated: every value is equal to itself
C29_Reflexive ==
    [][Equals /\ EqualLeft = EqualRight => unit'.ab.m.stack[1] = Bool(TRUE)]_vars

\* Equal has compared NaN with itself and answered false
C29_Witness ==
    /\ unit.op = "Equal" /\ unit.ab.kind = "Ok"
    /\ IsNaN(unit.a) /\ unit.b = unit.a
    /\ unit.ab.m.stack = << Bool(FALSE) >>

\* C30: a Call that completes without error has the same net effect on the
\* stack whatever it calls: the callee slot and the argc arguments above it
\* are replaced by exactly one result, so the height is argc less than
\* before the Call.  A native or a class completes within the Call step; a
\* closure completes at the Return of the frame the Call pushed, which
\* starts at the callee slot.
C30_CallEffect ==
    [][/\ Executing("Call") /\ Argc < Len(stack)
          /\ Callee.t \in {"NativeFun", "Class"} /\ status' = "running" =>
            /\ Len(stack') = Len(stack) - Argc
            /\ SubSeq(stack', 1, Len(stack') - 1) = SubSeq(stack, 1, Len(stack) - Argc - 1)
       /\ Executing("Call") /\ Argc < Len(stack)
          /\ Callee.t = "Closure" /\ status' = "running" =>
            Last(frames').frame_start = Len(stack) - Argc - 1
       /\ Executing("Return") /\ Len(frames) > 1 /\ status' = "running" =>
            /\ Len(stack') = frame(M).frame_start + 1
            /\ Last(stack') = Last(stack)]_vars

\* the Loop that closes the one loop of the current chunk, the start of an
\* iteration of that loop and the instruction the loop is left to
ClosingLoop == CHOOSE l \in Offsets : OpAt(l) = "Loop" /\ \A o \in Offsets : OpAt(o) = "Loop" => o <= l
IterationStart == LoopTarget(ClosingLoop)
LoopExit == After(After(ClosingLoop))

\* C31: `break` and `continue` release the locals declared in the loop
\* body.  Programs while_loop (a break after `var t` in the body) and
\* continue_local (a continue after `var t`) are top-level code with no
\* other local, so the stack holds the script's closure alone at the start
\* of the first iteration: it holds no more at the start of any iteration
\* and where the loop is left, however that point was reached.
C31_LoopLocals ==
    program \in {"while_loop", "continue_local"} /\ status = "running"
    /\ frame(M).ip \in {IterationStart, LoopExit} => Len(stack) = 1

\* C32: the loops around a function declaration are no loops of the
\* function: the `break` in the body of f, declared in the body of a while
\* loop (program loop_function), is refused with "'break' statement allowed
\* inside loops only", and the program is not run.
C32_LoopContext ==
    program = "loop_function" =>
        /\ status \in {"source", "compile_failed"}
        /\ status = "compile_failed" =>
             \E i \in 1..Len(compile_errors) :
                compile_errors[i].message = "'break' statement allowed inside loops only"

\* C33: in every state of the machine each cell on the open-upvalue list
\* is open and refers to a stack index below the length of the stack.
C33_OpenBelowTop ==
    \A k \in 1..Len(open_upvalues) :
        /\ cells[open_upvalues[k]].kind = "Stack"
        /\ cells[open_upvalues[k]].index < Len(stack)

(***************************************************************************)
(* The list of open upvalues (backend/machine.rs): `unit` is a machine     *)
(* with one frame over a stack of MaxSlots values, to which captures and   *)
(* closes are applied in any order, with the last operation and its        *)
(* argument.                                                               *)
(***************************************************************************)
MaxSlots == 3
MaxCells == 3

InitOpen ==
    /\ Idle
    /\ unit \in { [m |-> [NoMachine EXCEPT
                            !.stack = [ k \in 1..MaxSlots |-> Number(k) ],
                            !.frames = << [closure |-> 1, ip |-> 0,
                                           frame_start |-> start] >>],
                   op |-> "none", arg |-> 0, cell |-> 0] : start \in {0, 1} }

\* Machine::capture_upvalue of a local of the frame
OpenCapture ==
    /\ Len(unit.m.cells) < MaxCells
    /\ \E index \in 0..(Len(unit.m.stack) - unit.m.frames[1].frame_start - 1) :
         LET r == capture_upvalue(unit.m, index)
         IN  unit' = [m |-> r.m, op |-> "capture", arg |-> index, cell |-> r.val]
    /\ UNCHANGED interpreter

\* Machine::close_upvalues, as Return calls it
OpenClose ==
    /\ \E t \in 0..Len(unit.m.stack) :
         unit' = [m |-> close_upvalues(unit.m, t).m, op |-> "close", arg |-> t,
                  cell |-> 0]
    /\ UNCHANGED interpreter

\* Machine::op_close_upvalue: the top slot is closed and popped
OpenCloseTop ==
    /\ Len(unit.m.stack) > unit.m.frames[1].frame_start + 1
    /\ unit' = [m |-> op_close_upvalue(unit.m).m, op |-> "close_top",
                arg |-> Len(unit.m.stack) - 1, cell |-> 0]
    /\ UNCHANGED interpreter

\* a value is pushed on the stack again
OpenPush ==
    /\ Len(unit.m.stack) < MaxSlots
    /\ unit' = [m |-> stack_push(unit.m, Nil).m, op |-> "push", arg |-> 0, cell |-> 0]
    /\ UNCHANGED interpreter

NextOpen == OpenCapture \/ OpenClose \/ OpenCloseTop \/ OpenPush

SpecOpen == InitOpen /\ [][NextOpen]_vars

\* the stack index of the k-th cell of the open list of machine m
OpenIndex(m, k) == m.cells[m.open_upvalues[k]].index

\* C34: after any sequence of captures and closes the open list holds open
\* cells only, in strictly decreasing order of stack index (so at most one
\* per slot); a capture returns the open cell of the slot it names, and
\* close_upvalues(t) leaves no open cell with an index of t or more and
\* every open cell below t where it was.
C34_OpenSorted ==
    [][LET m == unit'.m
       IN  /\ \A k \in 1..Len(m.open_upvalues) :
                /\ m.cells[m.open_upvalues[k]].kind = "Stack"
                /\ k > 1 => OpenIndex(m, k - 1) > OpenIndex(m, k)
           /\ unit'.op = "capture" /\ unit' # unit =>
                /\ m.cells[unit'.cell].kind = "Stack"
                /\ m.cells[unit'.cell].index = m.frames[1].frame_start + unit'.arg
                /\ \E k \in 1..Len(m.open_upvalues) : m.open_upvalues[k] = unit'.cell
           /\ unit'.op \in {"close", "close_top"} /\ unit' # unit =>
                /\ \A k \in 1..Len(m.open_upvalues) : OpenIndex(m, k) < unit'.arg
                /\ \A k \in 1..Len(unit.m.open_upvalues) :
                     OpenIndex(unit.m, k) < unit'.arg =>
                        \E j \in 1..Len(m.open_upvalues) :
                            m.open_upvalues[j] = unit.m.open_upvalues[k]]_vars

\* a cell was inserted in the middle of the open list
C34_Witness ==
    /\ unit.op = "capture"
    /\ Len(unit.m.open_upvalues) = 3
    /\ unit.m.open_upvalues[2] = unit.cell
    /\ unit.cell = Len(unit.m.cells)

(***************************************************************************)
(* Jump targets (frontend/assembler.rs patch_jump and emit_loop against    *)
(* backend/machine.rs op_jump, op_jump_if_false and op_loop): the chunks   *)
(* of the jump-offset development above, and a machine that executes the   *)
(* patched jump or the loop of a chunk compile returned.                   *)
(***************************************************************************)
\* a machine about to execute the instruction at offset o of function func,
\* with false on top of the stack
MachineAt(func, o) ==
    [NoMachine EXCEPT !.closures = << [func |-> func, upvalues |-> <<>>] >>,
                      !.frames = << [closure |-> 1, ip |-> o, frame_start |-> 0] >>,
                      !.stack = << ClosureVal(1), Bool(FALSE) >>]

\* one iteration of Machine::perform on a jump instruction
PerformJump(m) ==
    LET f == fetch(frame_chunk(m).code, frame(m).ip)
        m1 == [m EXCEPT !.frames[Len(m.frames)].ip = f.offset]
    IN  CASE f.instr.op = "Jump" -> op_jump(m1, f.instr.a, f.instr.b)
          [] f.instr.op = "JumpIfFalse" -> op_jump_if_false(m1, f.instr.a, f.instr.b)
          [] f.instr.op = "Loop" -> op_loop(m1, f.instr.a, f.instr.b)

\* the machine executes the patched jump at offset 0, or the loop
JumpRun ==
    /\ unit.op = "compile" /\ Unwrap(unit.result).kind = "Ok"
    /\ \E at \in (IF unit.jump # None THEN {0} ELSE {})
                 \cup (IF unit.loop # None THEN {Unwrap(unit.loop).at} ELSE {}) :
         LET r == PerformJump(MachineAt(Unwrap(unit.result).func, at))
         IN  unit' = [unit EXCEPT !.op = "run",
                        !.ran = Some([at |-> at, kind |-> r.kind,
                                      ip |-> frame(r.m).ip])]
    /\ UNCHANGED interpreter

NextTarget == JumpEmit \/ JumpPatch \/ JumpLoop \/ JumpCompiled \/ JumpRun

SpecTarget == InitJump /\ [][NextTarget]_vars

\* C35: in a chunk compile returned, executing the forward jump patched by
\* patch_jump (a Jump, or a JumpIfFalse on a false condition) sets ip to
\* the chunk position at which patch_jump was called, and executing the
\* Loop of emit_loop(start) sets ip to start; the operand is the distance
\* between that position and the byte after the operand, high byte first.
C35_JumpTargets ==
    [][unit' # unit /\ unit'.op = "run" =>
        LET ran == Unwrap(unit'.ran)
            code == Unwrap(unit.result).func.chunk.code
            after == ran.at + size(Instr("Jump", 0, 0))
        IN  /\ ran.kind = "Ok"
            /\ ran.at = 0 =>
                /\ ran.ip = after + Unwrap(unit.jump)
                /\ code[ran.at + 2] * 256 + code[ran.at + 3] = ran.ip - after
            /\ ran.at # 0 =>
                /\ ran.ip = Unwrap(unit.loop).start
                /\ code[ran.at + 2] * 256 + code[ran.at + 3] = after - ran.ip]_vars

\* the machine has jumped over 65535 bytes, to the position of patch_jump
C35_Witness ==
    /\ unit.op = "run"
    /\ Unwrap(unit.ran).at = 0 /\ Unwrap(unit.ran).kind = "Ok"
    /\ unit.jump = Some(U16_MAX)
    /\ Unwrap(unit.ran).ip = U16_MAX + size(Instr("Jump", 0, 0))

\* what `var g1; var g2; fun main() { for (var a = 1; a <= K; a = a + 1) {
\* fun c() { print a; } if (g1 == nil) { g1 = c; } else { g2 = c; } } }
\* main(); if (K > 0) g1(); if (K > 1) g2();` prints
LoopClosuresOutput ==
    [ k \in 1..(IF input > 1 THEN 2 ELSE input) |-> ToString(input + 1) ]

\* the closures made of the function c
LoopClosures == { c \in 1..Len(closures) : closures[c].func.name = Some("c") }

\* C36: the closures created in the iterations of a for loop capture the
\* loop variable of the initializer as one variable: in program
\* loop_closures they all hold the same cell, and called after the loop
\* each prints the final value K + 1 of the variable.
C36_LoopVariable ==
    program = "loop_closures" =>
        /\ \A c1, c2 \in LoopClosures : closures[c1].upvalues = closures[c2].upvalues
        /\ IsPrefix(printed, LoopClosuresOutput)
        /\ status \in {"source", "running", "done"}
        /\ status = "done" => printed = LoopClosuresOutput

\* both closures were called after the loop and printed 3
C36_Witness ==
    /\ program = "loop_closures" /\ input = 2 /\ status = "done"
    /\ printed = << "3", "3" >>
    /\ Cardinality(LoopClosures) = 2

\* C37: whenever synchronize has returned, the panic flag is clear, whatever
\* tokens (scanner error tokens included) it skipped, so that the first
\* error of the declaration that follows is recorded.
C37_SynchronizeClears ==
    unit.op = "synchronize" =>
        /\ ~unit.p.panic_mode
        /\ LET q == error_at_current(unit.p, "Expect expression.")
           IN  Len(q.errors) = Len(unit.p.errors) + 1

(***************************************************************************)
(* The loops of the parser, one pass at a time (frontend/assembler.rs):    *)
(* `unit` is an Assembler over a short token stream, with the loop whose    *)
(* pass was taken last.  A pass is taken only where the loop's condition   *)
(* lets it run.                                                            *)
(***************************************************************************)
MaxPassLen == 3

PassLexemes == { "{", "}", "class", "case", ")", "1", ";", "@", "fun", "x" }

RECURSIVE PassSourcesOfLen(_)
PassSourcesOfLen(n) ==
    IF n = 0 THEN { <<>> }
    ELSE { Append(s, x) : s \in PassSourcesOfLen(n - 1), x \in PassLexemes }

\* Assembler::compile up to its loop
InitPass ==
    /\ Idle
    /\ unit \in { [p |-> advance(init_compiler(assembler_new(TokensOf(<< s >>)),
                                               "Script")),
                   op |-> "advance"] :
                    s \in UNION { PassSourcesOfLen(n) : n \in 0..MaxPassLen } }

\* one pass of the loop of Assembler::compile
PassCompile ==
    /\ ~unit.p.aborted
    /\ cur(unit.p).depth = 0
    /\ ~check(unit.p, "Eof")
    /\ unit' = [p |-> parse("declaration", unit.p, 0), op |-> "compile"]
    /\ UNCHANGED interpreter

\* Assembler::statement on `{`, up to the loop of Assembler::block
PassEnterBlock ==
    /\ ~unit.p.aborted
    /\ check(unit.p, "LeftBrace")
    /\ unit' = [p |-> begin_scope(advance(unit.p)), op |-> "enter"]
    /\ UNCHANGED interpreter

\* one pass of the loop of Assembler::block
PassBlock ==
    /\ ~unit.p.aborted
    /\ cur(unit.p).depth > 0
    /\ ~check(unit.p, "RightBrace") /\ ~check(unit.p, "Eof")
    /\ unit' = [p |-> parse("declaration", unit.p, 0), op |-> "block"]
    /\ UNCHANGED interpreter

\* one pass of the method loop of Assembler::class_declaration
PassMethod ==
    /\ ~unit.p.aborted
    /\ ~check(unit.p, "RightBrace") /\ ~check(unit.p, "Eof")
    /\ unit' = [p |-> method(unit.p), op |-> "class"]
    /\ UNCHANGED interpreter

\* one pass of the loop of Assembler::switch_branch_statement
PassSwitchBranch ==
    /\ ~unit.p.aborted
    /\ unit.p.current.t_type \notin {"Case", "DefaultCase", "RightBrace", "Eof"}
    /\ unit' = [p |-> parse("statement", unit.p, 0), op |-> "switch"]
    /\ UNCHANGED interpreter

\* one pass of the loop of Assembler::synchronize
PassSynchronize ==
    /\ ~unit.p.aborted
    /\ ~check(unit.p, "Eof")
    /\ unit.p.previous.t_type # "Semicolon"
    /\ unit.p.current.t_type \notin {"Class", "Fun", "Var", "For", "If", "While",
                                     "Print", "Return"}
    /\ unit' = [p |-> advance(unit.p), op |-> "synchronize"]
    /\ UNCHANGED interpreter

NextPass ==
    \/ PassCompile \/ PassEnterBlock \/ PassBlock \/ PassMethod
    \/ PassSwitchBranch \/ PassSynchronize

SpecPass == InitPass /\ [][NextPass]_vars

\* the tokens the scanner has handed out (the Eof token is handed out again
\* and again once the source is used up)
Consumed(p) == IF p.pos > Len(p.toks) THEN Len(p.toks) + 1 ELSE p.pos

\* C38: every pass of the loop of compile, of a block, of a class body, of
\* a switch branch and of synchronize consumes at least one token; a pass is
\* taken only before the end of input, so that the loops end on every
\* finite token stream.
C38_Progress ==
    [][unit' # unit =>
        /\ unit.p.pos <= Len(unit.p.toks)
        /\ unit'.op # "enter" =>
                \/ Consumed(unit'.p) > Consumed(unit.p)
                \/ unit'.p.aborted]_vars

\* a pass of the block loop that met `)` just after a semicolon has
\* consumed it
C38_Witness ==
    /\ unit.op = "block"
    /\ unit.p.previous.t_type = "RightParenthesis"
    /\ unit.p.pos = 4
    /\ unit.p.toks[2].t_type = "Semicolon"
    /\ ~unit.p.aborted

\* the texts of the errors Machine raises for states it takes for its own
\* defects (backend/machine.rs)
BugMessages ==
    { "Bug: return on empty call frame", "Bug: failed to get local value",
      "Bug: method on non-class object", "Bug: expected closure in bind_method",
      "Bug: closure refers to non-function constant", "Bug: missing upvalue",
      "Bug: failed to pop front upvalue", "Bug: get_upvalue got nil",
      "Bug: set_upvalue got nil", "Bug: empty call frame",
      "Bug: failed to fetch constant",
      "Bug: open upvalues should be stack allocated" }
    \cup { "Bug: invalid stack index (" \o ToString(k) \o ")" : k \in 0..UINT8_COUNT }
    \cup { "Bug: trying access stack with invalid index " \o ToString(k) :
                k \in 0..UINT8_COUNT }

\* C39: the run of a function that compile returned without errors raises
\* no internal "Bug:" error and indexes neither the value stack, nor a
\* constant pool, nor an upvalue array out of bounds (a panic).
C39_NoInternalError ==
    compile_errors = <<>> =>
        /\ status # "panicked"
        /\ IsSome(vm_error) => Unwrap(vm_error).text \notin BugMessages

(***************************************************************************)
(* The instruction codec on its own (data/instruction.rs): `unit` is a     *)
(* byte buffer that holds the bytes of one instruction `instr` at offset   *)
(* `at`, of which `kept` bytes are left and whose opcode byte may have     *)
(* been overwritten (`corrupt`), with the result of the last fetch at `at`.*)
(***************************************************************************)
MaxPad == 1

\* the operand bytes tried
OperandBytes == { 0, 1, 255 }

\* bytes that are no opcode
NonOpcodes == { Len(AllOpcodes), 255 }

\* every instruction, with operands from OperandBytes
Instructions ==
    { Instr(AllOpcodes[k],
            IF OperandCount(AllOpcodes[k]) >= 1 THEN a ELSE 0,
            IF OperandCount(AllOpcodes[k]) = 2 THEN b ELSE 0) :
        k \in 1..Len(AllOpcodes), a \in OperandBytes, b \in OperandBytes }

\* a chunk in which `instr` was written after n one-byte instructions
\* (Chunk::write_buffer of Instruction::as_vec), followed or not by another
InitCodec ==
    /\ Idle
    /\ unit \in { [buffer |-> [ k \in 1..n |-> OpcodeOf("Nil") ] \o as_vec(i) \o tail,
                   at |-> n, instr |-> i, kept |-> size(i), corrupt |-> FALSE,
                   result |-> None, op |-> "write"] :
                    n \in 0..MaxPad, i \in Instructions,
                    tail \in { <<>>, as_vec(I0("Return")) } }

\* Instruction::fetch at the instruction's offset
CodecFetch ==
    /\ unit.result = None
    /\ unit' = [unit EXCEPT !.result = Some(fetch(unit.buffer, unit.at)),
                            !.op = "fetch"]
    /\ UNCHANGED interpreter

\* the buffer ends one byte earlier within, or just before, the instruction
CodecTruncate ==
    /\ unit.kept > 0
    /\ unit' = [unit EXCEPT !.buffer = SubSeq(unit.buffer, 1, unit.at + unit.kept - 1),
                            !.kept = @ - 1, !.result = None, !.op = "truncate"]
    /\ UNCHANGED interpreter

\* the byte at the instruction's offset is no opcode
CodecCorrupt ==
    /\ unit.kept > 0 /\ ~unit.corrupt
    /\ \E byte \in NonOpcodes :
            unit' = [unit EXCEPT !.buffer[unit.at + 1] = byte, !.corrupt = TRUE,
                                 !.result = None, !.op = "corrupt"]
    /\ UNCHANGED interpreter

NextCodec == CodecFetch \/ CodecTruncate \/ CodecCorrupt

SpecCodec == InitCodec /\ [][NextCodec]_vars

\* C40: fetch on the bytes of as_vec(i) returns i and advances the offset by
\* size(i); fetch at the end of the buffer returns End, on missing operand
\* bytes Broken, and on a byte that is no opcode Unknown.
C40_Codec ==
    IsSome(unit.result) =>
        LET r == Unwrap(unit.result) IN
        CASE unit.kept = 0 ->
                /\ unit.at = Len(unit.buffer)
                /\ ~r.ok /\ r.err = "End of program"
          [] unit.kept > 0 /\ unit.corrupt ->
                /\ ~r.ok
                /\ r.err = "Unknown instruction " \o ToString(unit.buffer[unit.at + 1])
          [] unit.kept > 0 /\ ~unit.corrupt /\ unit.kept < size(unit.instr) ->
                ~r.ok /\ r.err = "Broken instruction"
          [] OTHER ->
                /\ r.ok /\ r.instr = unit.instr
                /\ r.offset = unit.at + size(unit.instr)

\* a jump with two different operand bytes has been fetched back from the
\* middle of a buffer
C40_Witness ==
    /\ IsSome(unit.result) /\ Unwrap(unit.result).ok
    /\ unit.at = 1 /\ unit.kept = 3
    /\ Unwrap(unit.result).instr = Instr("Jump", 1, 255)
    /\ Unwrap(unit.result).offset = 4 /\ Len(unit.buffer) = 5

=============================================================================
